---- MODULE Spec2Model ----
(***************************************************************************)
(* State-machine model of the RAG indexing / retrieval core of             *)
(* frafaelcb/desafio_rag: VectorStoreManager (src/src/vector_store.py),    *)
(* RAGChain (src/src/rag_chain.py), the index command                      *)
(* RAGChain (src/src/rag_chain.py), the configuration                      *)
(* (src/src/config.py), the commands (src/src/commands), the search states *)
(* of the menu (src/src/ui/menu_state.py) and the CLI helpers              *)
(* (src/src/main.py).  The vector store, the PDF loader, the text          *)
(* splitter, the embedding client and the QA chain are collaborators:      *)
(* their outcomes are inputs of every call.                                *)
(***************************************************************************)
EXTENDS Integers, Sequences, FiniteSets, Bags, TLC

VARIABLES store, nextBatch, op, result, calls, env, built, shown, procs, menu

vars == <<store, nextBatch, op, result, calls, env, built, shown, procs, menu>>

(***************************************************************************)
(* Bounds of the model                                                     *)
(***************************************************************************)
\* number of add_documents batches a behaviour may commit
MaxAdds == 2

\* largest k a caller passes to a search
MaxK == 2

(***************************************************************************)
(* Program constants                                                       *)
(***************************************************************************)
\* k of the probe in get_document_info
DocInfoK == 100

\* k of the probe in remove_document
RemoveK == 1000

\* k of the probe in check_document_exists
ExistsK == 1

\* k of the probe in get_collection_info
CollectionInfoK == 1

\* default of SEARCH_K in Config
SEARCH_K == 3

\* default of CHUNK_SIZE in Config
CHUNK_SIZE == 500

\* default of CHUNK_OVERLAP in Config
CHUNK_OVERLAP == 50

\* k of SearchCommand.execute when the caller passes none
SearchCommandK == 3

\* default of -k of the command line's search
MainSearchK == 3

\* k of the menu's search when the answer is empty or not a number
MenuSearchK == 3

\* characters of a chunk shown as the excerpt of a source
PreviewLen == 200

(***************************************************************************)
(* The environment: files, their contents, queries                         *)
(***************************************************************************)
Paths == {"a.pdf", "notes.txt", "missing.pdf"}

\* os.path.exists
PathExists(p) == p \in {"a.pdf", "notes.txt"}

\* pdf_path.lower().endswith('.pdf')
EndsWithPdf(p) == p \in {"a.pdf", "missing.pdf"}

\* os.path.basename: the paths of the model have no directory part
Basename(p) == p

\* one more chunk than the existence probe can return
BigDoc == DocInfoK + 1

\* what a file may hold when it is loaded: chunks produced per page
Layouts == {<< >>, <<2, 1>>, <<BigDoc>>}

Queries == {"alpha", "omega"}

NoFilter == "*"

NoPath == "-"

\* a caller that passes no path (None or the empty string)
EmptyPath == ""

SrcRank(p) ==
    CASE p = "a.pdf" -> 1
      [] p = "notes.txt" -> 2
      [] OTHER -> 3

\* the k argument of a search: absent (None) or a number
KArgs == {[given |-> FALSE, v |-> 0]} \cup {[given |-> TRUE, v |-> n] : n \in -1..MaxK}

\* Python truth value of k in "k or default"
Truthy(k) == k.given /\ k.v # 0

Min(a, b) == IF a < b THEN a ELSE b

(***************************************************************************)
(* Config: the class attributes, read from the environment at import       *)
(***************************************************************************)
\* what os.getenv gives for a variable that is not set
None == "<None>"

\* an integer variable of the environment: not set, or set to v
IntUnset == [set |-> FALSE, v |-> 0]

IntSet(n) == [set |-> TRUE, v |-> n]

\* os.getenv(name, default)
getenv(value, default) == IF value = None THEN default ELSE value

\* int(os.getenv(name, default))
getenv_int(value, default) == IF value.set THEN value.v ELSE default

\* the attributes of class Config under the environment of the process
Config ==
    [OPENAI_API_KEY    |-> env.OPENAI_API_KEY,
     POSTGRES_PASSWORD |-> getenv(env.POSTGRES_PASSWORD, "password"),
     CHUNK_SIZE        |-> getenv_int(env.CHUNK_SIZE, CHUNK_SIZE),
     CHUNK_OVERLAP     |-> getenv_int(env.CHUNK_OVERLAP, CHUNK_OVERLAP),
     SEARCH_K          |-> getenv_int(env.SEARCH_K, SEARCH_K),
     COLLECTION_NAME        |-> getenv(None, "docs_pdf"),
     OPENAI_EMBEDDING_MODEL |-> getenv(None, "text-embedding-3-small")]

\* Python truth value of a string or None
Falsy(v) == v \in {None, ""}

\* Config.validate_config
validate_config ==
    LET required_vars == <<Config.OPENAI_API_KEY, Config.POSTGRES_PASSWORD>>
        missing_vars  == {i \in DOMAIN required_vars : Falsy(required_vars[i])}
    IN  missing_vars = {}

\* the environment of a process
Environ(key, password, size, overlap, k) ==
    [OPENAI_API_KEY |-> key, POSTGRES_PASSWORD |-> password,
     CHUNK_SIZE |-> size, CHUNK_OVERLAP |-> overlap, SEARCH_K |-> k]

DefaultEnv == Environ("sk-key", "secret", IntUnset, IntUnset, IntUnset)

\* the objects and clients of a running process
VsmParts == {"OpenAIEmbeddings", "PGVector", "RecursiveCharacterTextSplitter",
             "VectorStoreManager"}

RagParts == {"ChatOpenAI", "retriever", "RetrievalQA", "RAGChain"}

(***************************************************************************)
(* The vector store collaborator (PGVector): a bag of records.  batch is   *)
(* the add_documents call that wrote the record (the row's identity).      *)
(***************************************************************************)
\* len is the number of characters of the chunk's text, text the page of the
\* file (first, second, ...) the text was read from
Rec(src, pg, b, len, text) ==
    [source |-> src, page |-> pg, batch |-> b, len |-> len, text |-> text]

\* similarity of a record to a query, as the store computes it
Score(q, r) ==
    CASE q = "alpha" -> r.page + 1
      [] q = "omega" -> 3 - r.page
      [] OTHER -> 0

\* the store's total order of results: similarity first, then row identity
Before(q, r, o) ==
    \/ Score(q, r) > Score(q, o)
    \/ /\ Score(q, r) = Score(q, o)
       /\ \/ r.batch < o.batch
          \/ r.batch = o.batch /\ SrcRank(r.source) < SrcRank(o.source)
          \/ r.batch = o.batch /\ r.source = o.source /\ r.page <= o.page

Copies(r, n) == [i \in 1..n |-> r]

RECURSIVE Ranked(_, _, _)
Ranked(st, q, S) ==
    IF S = {} THEN << >>
    ELSE LET best == CHOOSE r \in S : \A o \in S : Before(q, r, o)
         IN  Copies(best, CopiesIn(best, st)) \o Ranked(st, q, S \ {best})

Matching(st, filter) ==
    {r \in BagToSet(st) : filter = NoFilter \/ r.source = filter}

\* PGVector.similarity_search(query, k, filter): at most k, best first
similarity_search(st, q, k, filter) ==
    LET all == Ranked(st, q, Matching(st, filter))
    IN  SubSeq(all, 1, Min(k, Len(all)))

(***************************************************************************)
(* Results and the log of collaborator calls of the operation in progress  *)
(***************************************************************************)
Call(name, arg, k, force, ok) ==
    [name |-> name, arg |-> arg, k |-> k, force |-> force, ok |-> ok]

\* a normal return: count / flag / docs carry the returned value
Return(count, flag, docs) ==
    [kind |-> "return", error |-> "", count |-> count, flag |-> flag, docs |-> docs]

\* an exception leaving the operation
Raise(error) ==
    [kind |-> "raise", error |-> error, count |-> 0, flag |-> FALSE, docs |-> << >>]

Out(st, nb, res, cs) ==
    [store |-> st, nextBatch |-> nb, result |-> res, calls |-> cs]

(***************************************************************************)
(* Document loader and text splitter                                       *)
(***************************************************************************)
\* PyPDFLoader(pdf_path).load(): one document per page, holding the text of
\* the i-th page of the file under the page number i - 1
load(pdf_path, layout) ==
    [i \in 1..Len(layout) |->
        [source |-> pdf_path, page |-> i - 1, text |-> i, nchunks |-> layout[i]]]

\* the pieces RecursiveCharacterTextSplitter(chunk_size, ...) cuts: chunk_size
\* characters of text, and never less than one character
ChunkLen(chunk_size) == IF chunk_size > 0 THEN chunk_size ELSE 1

\* text_splitter.split_documents: chunks keep the page metadata; the splitter
\* was constructed with Config.CHUNK_SIZE
RECURSIVE split_documents(_)
split_documents(docs) ==
    IF docs = << >> THEN << >>
    ELSE Copies([source |-> Head(docs).source, page |-> Head(docs).page,
                 text |-> Head(docs).text,
                 len |-> ChunkLen(Config.CHUNK_SIZE)],
                Head(docs).nchunks)
         \o split_documents(Tail(docs))

\* PGVector.add_documents(chunks): one batch, all records or none
add_documents(st, chunks, b) ==
    LET row(i) == Rec(chunks[i].source, chunks[i].page, b, chunks[i].len,
                      chunks[i].text)
        rows   == {row(i) : i \in DOMAIN chunks}
        n(r)   == Cardinality({i \in DOMAIN chunks : row(i) = r})
    IN  st (+) [r \in rows |-> n(r)]

(***************************************************************************)
(* VectorStoreManager                                                      *)
(***************************************************************************)
SourceQuery(pdf_path) == "source:" \o pdf_path

\* VectorStoreManager.check_document_exists
check_document_exists(st, pdf_path, storeOk) ==
    LET c == <<Call("similarity_search", pdf_path, ExistsK, FALSE, storeOk)>>
    IN  IF storeOk
        THEN LET docs == similarity_search(st, SourceQuery(pdf_path), ExistsK, pdf_path)
             IN  [ret |-> Len(docs) > 0, calls |-> c]
        ELSE [ret |-> FALSE, calls |-> c]

\* VectorStoreManager.get_document_info
get_document_info(st, pdf_path, storeOk) ==
    LET c == <<Call("similarity_search", pdf_path, DocInfoK, FALSE, storeOk)>>
    IN  IF storeOk
        THEN LET docs == similarity_search(st, SourceQuery(pdf_path), DocInfoK, pdf_path)
             IN  [exists |-> Len(docs) > 0, chunks_count |-> Len(docs),
                  filename |-> Basename(pdf_path), calls |-> c]
        ELSE [exists |-> FALSE, chunks_count |-> 0,
              filename |-> Basename(pdf_path), calls |-> c]

\* remove_document that deletes the records the probe found
remove_document_deleting(st, pdf_path, storeOk) ==
    LET c == <<Call("similarity_search", pdf_path, RemoveK, FALSE, storeOk)>>
    IN  IF storeOk
        THEN LET docs == similarity_search(st, SourceQuery(pdf_path), RemoveK, pdf_path)
                 gone == {docs[i] : i \in DOMAIN docs}
             IN  [store |-> st (-) [r \in gone |-> CopiesIn(r, st)],
                  ret |-> Len(docs) > 0, calls |-> c]
        ELSE [store |-> st, ret |-> FALSE, calls |-> c]

\* VectorStoreManager.remove_document: probes, reports, deletes nothing
remove_document(st, pdf_path, storeOk) ==
    LET c == <<Call("similarity_search", pdf_path, RemoveK, FALSE, storeOk)>>
    IN  IF storeOk
        THEN LET docs == similarity_search(st, SourceQuery(pdf_path), RemoveK, pdf_path)
             IN  [store |-> st, ret |-> Len(docs) > 0, calls |-> c]
        ELSE [store |-> st, ret |-> FALSE, calls |-> c]

\* what add_documents may do: succeed, fail in the embedding call, fail in the store
AddOutcomes == {"ok", "embed", "store"}

\* load, split, add where a failing store call has already written the batch
index_pdf_load_add_partial(st, nb, pdf_path, cs) ==
    {Out(st, nb, Raise("LoadError"),
         cs \o <<Call("PyPDFLoader.load", pdf_path, 0, FALSE, FALSE)>>)}
    \cup
    UNION {
      LET chunks == split_documents(load(pdf_path, layout))
          c3     == cs \o <<Call("PyPDFLoader.load", pdf_path, 0, FALSE, TRUE),
                            Call("split_documents", pdf_path, 0, FALSE, TRUE),
                            Call("embed_documents", pdf_path, Len(chunks), FALSE, TRUE)>>
      IN  {Out(add_documents(st, chunks, nb), nb + 1,
               IF add = "ok" THEN Return(Len(chunks), TRUE, << >>)
                             ELSE Raise("VectorStoreError"),
               c3 \o <<Call("add_documents", pdf_path, Len(chunks), FALSE, add = "ok")>>)
           : add \in AddOutcomes}
      : layout \in Layouts}

\* load, split, add where the value returned is the number of pages loaded
index_pdf_load_add_pages(st, nb, pdf_path, cs) ==
    {Out(st, nb, Raise("LoadError"),
         cs \o <<Call("PyPDFLoader.load", pdf_path, 0, FALSE, FALSE)>>)}
    \cup
    UNION {
      LET docs   == load(pdf_path, layout)
          chunks == split_documents(docs)
          c3     == cs \o <<Call("PyPDFLoader.load", pdf_path, 0, FALSE, TRUE),
                            Call("split_documents", pdf_path, 0, FALSE, TRUE)>>
      IN  {CASE add = "embed" ->
                 Out(st, nb, Raise("EmbeddingError"),
                     c3 \o <<Call("embed_documents", pdf_path, Len(chunks), FALSE, FALSE)>>)
            [] add = "store" ->
                 Out(st, nb, Raise("VectorStoreError"),
                     c3 \o <<Call("embed_documents", pdf_path, Len(chunks), FALSE, TRUE),
                             Call("add_documents", pdf_path, Len(chunks), FALSE, FALSE)>>)
            [] OTHER ->
                 Out(add_documents(st, chunks, nb), nb + 1,
                     Return(Len(docs), TRUE, << >>),
                     c3 \o <<Call("embed_documents", pdf_path, Len(chunks), FALSE, TRUE),
                             Call("add_documents", pdf_path, Len(chunks), FALSE, TRUE)>>)
           : add \in AddOutcomes}
      : layout \in Layouts}

\* load, split, add where every chunk is numbered by its place in the list
index_pdf_load_add_renumbered(st, nb, pdf_path, cs) ==
    {Out(st, nb, Raise("LoadError"),
         cs \o <<Call("PyPDFLoader.load", pdf_path, 0, FALSE, FALSE)>>)}
    \cup
    UNION {
      LET docs   == load(pdf_path, layout)
          split  == split_documents(docs)
          chunks == [i \in DOMAIN split |-> [split[i] EXCEPT !.page = i - 1]]
          c3     == cs \o <<Call("PyPDFLoader.load", pdf_path, 0, FALSE, TRUE),
                            Call("split_documents", pdf_path, 0, FALSE, TRUE)>>
      IN  {CASE add = "embed" ->
                 Out(st, nb, Raise("EmbeddingError"),
                     c3 \o <<Call("embed_documents", pdf_path, Len(chunks), FALSE, FALSE)>>)
            [] add = "store" ->
                 Out(st, nb, Raise("VectorStoreError"),
                     c3 \o <<Call("embed_documents", pdf_path, Len(chunks), FALSE, TRUE),
                             Call("add_documents", pdf_path, Len(chunks), FALSE, FALSE)>>)
            [] OTHER ->
                 Out(add_documents(st, chunks, nb), nb + 1,
                     Return(Len(chunks), TRUE, << >>),
                     c3 \o <<Call("embed_documents", pdf_path, Len(chunks), FALSE, TRUE),
                             Call("add_documents", pdf_path, Len(chunks), FALSE, TRUE)>>)
           : add \in AddOutcomes}
      : layout \in Layouts}

\* VectorStoreManager.index_pdf, lines 144-158: load, split, add.  The value is
\* the set of outcomes the collaborators allow (loader, embedding client, store).
index_pdf_load_add(st, nb, pdf_path, cs) ==
    {Out(st, nb, Raise("LoadError"),
         cs \o <<Call("PyPDFLoader.load", pdf_path, 0, FALSE, FALSE)>>)}
    \cup
    UNION {
      LET docs   == load(pdf_path, layout)
          chunks == split_documents(docs)
          c3     == cs \o <<Call("PyPDFLoader.load", pdf_path, 0, FALSE, TRUE),
                            Call("split_documents", pdf_path, 0, FALSE, TRUE)>>
      IN  {CASE add = "embed" ->
                 Out(st, nb, Raise("EmbeddingError"),
                     c3 \o <<Call("embed_documents", pdf_path, Len(chunks), FALSE, FALSE)>>)
            [] add = "store" ->
                 Out(st, nb, Raise("VectorStoreError"),
                     c3 \o <<Call("embed_documents", pdf_path, Len(chunks), FALSE, TRUE),
                             Call("add_documents", pdf_path, Len(chunks), FALSE, FALSE)>>)
            [] OTHER ->
                 Out(add_documents(st, chunks, nb), nb + 1,
                     Return(Len(chunks), TRUE, << >>),
                     c3 \o <<Call("embed_documents", pdf_path, Len(chunks), FALSE, TRUE),
                             Call("add_documents", pdf_path, Len(chunks), FALSE, TRUE)>>)
           : add \in AddOutcomes}
      : layout \in Layouts}

\* the forced reindex that empties the collection before it adds
index_pdf_remove_all(st, nb, pdf_path, cs) ==
    UNION {
      LET rm == remove_document(st, pdf_path, removeOk)
      IN  index_pdf_load_add(IF rm.ret THEN EmptyBag ELSE rm.store, nb, pdf_path,
                             cs \o rm.calls)
      : removeOk \in BOOLEAN}

\* VectorStoreManager.index_pdf, lines 139-142: remove first when forcing
index_pdf_remove(st, nb, pdf_path, cs) ==
    UNION {
      LET rm == remove_document(st, pdf_path, removeOk)
      IN  index_pdf_load_add(rm.store, nb, pdf_path, cs \o rm.calls)
      : removeOk \in BOOLEAN}

\* what follows the probe when the existence check is made again, together
\* with the add, by a caller that holds the collection for itself
index_pdf_probed_locked(st, nb, pdf_path, force, doc_info, c1) ==
    LET now == get_document_info(st, pdf_path, TRUE)
    IN  IF now.exists /\ ~force
        THEN {Out(st, nb, Return(now.chunks_count, TRUE, << >>), c1)}
        ELSE IF now.exists /\ force
             THEN index_pdf_remove(st, nb, pdf_path, c1)
             ELSE index_pdf_load_add(st, nb, pdf_path, c1)

\* VectorStoreManager.index_pdf, lines 133-158: what follows the existence
\* probe, on the store as it is by then
index_pdf_probed(st, nb, pdf_path, force, doc_info, c1) ==
    IF doc_info.exists /\ ~force
    THEN {Out(st, nb, Return(doc_info.chunks_count, TRUE, << >>), c1)}
    ELSE IF doc_info.exists /\ force
         THEN index_pdf_remove(st, nb, pdf_path, c1)
         ELSE index_pdf_load_add(st, nb, pdf_path, c1)

\* VectorStoreManager.index_pdf, lines 130-158: what follows the file check
index_pdf_checked(st, nb, pdf_path, force, c0) ==
    UNION {
      LET doc_info == get_document_info(st, pdf_path, probeOk)
      IN  index_pdf_probed(st, nb, pdf_path, force, doc_info, c0 \o doc_info.calls)
      : probeOk \in BOOLEAN}

\* index_pdf with the existence probe made before the file check
index_pdf_probe_first(st, nb, pdf_path, force) ==
    LET c0 == <<Call("VectorStoreManager.index_pdf", pdf_path, 0, force, TRUE)>>
        ce == <<Call("os.path.exists", pdf_path, 0, FALSE, PathExists(pdf_path))>>
    IN  IF ~PathExists(pdf_path)
        THEN {Out(st, nb, Raise("FileNotFoundError"),
                  c0 \o get_document_info(st, pdf_path, probeOk).calls \o ce)
              : probeOk \in BOOLEAN}
        ELSE index_pdf_checked(st, nb, pdf_path, force, c0 \o ce)

\* VectorStoreManager.index_pdf: the set of outcomes of one call
index_pdf(st, nb, pdf_path, force) ==
    LET c0 == <<Call("VectorStoreManager.index_pdf", pdf_path, 0, force, TRUE),
                Call("os.path.exists", pdf_path, 0, FALSE, PathExists(pdf_path))>>
    IN  IF ~PathExists(pdf_path)
        THEN {Out(st, nb, Raise("FileNotFoundError"), c0)}
        ELSE index_pdf_checked(st, nb, pdf_path, force, c0)

\* search_similar that hands the results back worst first
search_similar_reranked(st, query, k, storeOk) ==
    LET kk == IF Truthy(k) THEN k.v ELSE Config.SEARCH_K
        ok == storeOk /\ kk >= 0
        c  == <<Call("similarity_search", query, kk, FALSE, ok)>>
    IN  IF ok
        THEN LET results == similarity_search(st, query, kk, NoFilter)
                 n       == Len(results)
             IN  [result |-> Return(n, TRUE, [i \in 1..n |-> results[n + 1 - i]]),
                  calls |-> c]
        ELSE [result |-> Raise("VectorStoreError"), calls |-> c]

\* VectorStoreManager.search_similar
search_similar(st, query, k, storeOk) ==
    LET kk == IF Truthy(k) THEN k.v ELSE Config.SEARCH_K
        ok == storeOk /\ kk >= 0
        c  == <<Call("similarity_search", query, kk, FALSE, ok)>>
    IN  IF ok
        THEN LET results == similarity_search(st, query, kk, NoFilter)
             IN  [result |-> Return(Len(results), TRUE, results), calls |-> c]
        ELSE [result |-> Raise("VectorStoreError"), calls |-> c]

\* VectorStoreManager.get_collection_info
get_collection_info(st, storeOk) ==
    LET c == <<Call("similarity_search", "test", CollectionInfoK, FALSE, storeOk)>>
    IN  IF storeOk
        THEN LET docs == similarity_search(st, "test", CollectionInfoK, NoFilter)
             IN  [collection_name |-> Config.COLLECTION_NAME,
                  has_documents |-> Len(docs) > 0,
                  embedding_model |-> Config.OPENAI_EMBEDDING_MODEL, calls |-> c]
        ELSE [collection_name |-> Config.COLLECTION_NAME,
              has_documents |-> FALSE,
              embedding_model |-> Config.OPENAI_EMBEDDING_MODEL, calls |-> c]

(***************************************************************************)
(* RAGChain                                                                *)
(***************************************************************************)
\* RAGChain.search_only
search_only(st, query, k, storeOk) == search_similar(st, query, k, storeOk)

\* RAGChain.index_pdf(self, pdf_path): args are the positional arguments of
\* the call; any number other than one is a TypeError before the body runs
RAGChain_index_pdf(st, nb, args) ==
    IF Len(args) # 1
    THEN {Out(st, nb, Raise("TypeError"), << >>)}
    ELSE index_pdf(st, nb, args[1], FALSE)

(***************************************************************************)
(* IndexCommand and the command-line helper                                *)
(***************************************************************************)
\* the dictionary a command returns: flag is "success", count is "chunks_count"
Dict(success, error, count) ==
    [kind |-> "return", error |-> error, count |-> count, flag |-> success,
     docs |-> << >>]

\* IndexCommand.validate
IndexCommand_validate(pdf_path) ==
    /\ pdf_path # EmptyPath
    /\ PathExists(pdf_path)
    /\ EndsWithPdf(pdf_path)

\* the except clause of IndexCommand.execute and of index_pdf in main.py:
\* an exception becomes an error text, what was written stays written
CaughtIndex(r) ==
    IF r.result.kind = "raise"
    THEN Out(r.store, r.nextBatch,
             Dict(FALSE, "Erro ao indexar PDF: " \o r.result.error, 0), r.calls)
    ELSE Out(r.store, r.nextBatch, Dict(TRUE, "", r.result.count), r.calls)

\* IndexCommand.execute
IndexCommand_execute(st, nb, pdf_path, force) ==
    IF ~IndexCommand_validate(pdf_path)
    THEN {Out(st, nb, Dict(FALSE, "Parametros invalidos", 0), << >>)}
    ELSE {CaughtIndex(r) : r \in RAGChain_index_pdf(st, nb, <<pdf_path, force>>)}

\* index_pdf of src/src/main.py: returns None; flag tells whether the success
\* line was printed, error is the error line printed
main_index_pdf(st, nb, pdf_path) ==
    IF ~PathExists(pdf_path)
    THEN {Out(st, nb, Dict(FALSE, "Arquivo nao encontrado", 0), << >>)}
    ELSE IF ~EndsWithPdf(pdf_path)
    THEN {Out(st, nb, Dict(FALSE, "Arquivo deve ser um PDF", 0), << >>)}
    ELSE {CaughtIndex(r) : r \in RAGChain_index_pdf(st, nb, <<pdf_path>>)}

(***************************************************************************)
(* SearchCommand, the command line's search and the menu's search          *)
(***************************************************************************)
\* the query a caller may pass: a term, the empty string, blanks, or no
\* query at all (kwargs.get('query') is then None)
QueryArgs == Queries \cup {"", " ", None}

\* str.strip
strip(text) == IF text = " " THEN "" ELSE text

\* SearchCommand.validate
SearchCommand_validate(query) == ~(Falsy(query) \/ strip(query) = "")

\* the dictionary SearchCommand.execute returns: flag is "success", docs is
\* "results", count is "count"
SearchDict(success, error, docs) ==
    [kind |-> "return", error |-> error, count |-> Len(docs), flag |-> success,
     docs |-> docs]

\* the except clause of SearchCommand.execute and of search in main.py
CaughtSearch(r) ==
    IF r.result.kind = "raise"
    THEN [result |-> SearchDict(FALSE, "Erro na busca: " \o r.result.error, << >>),
          calls |-> r.calls]
    ELSE [result |-> SearchDict(TRUE, "", r.result.docs), calls |-> r.calls]

\* SearchCommand.execute where finding nothing is reported as a failure
SearchCommand_execute_nothing_fails(st, query, k, storeOk) ==
    LET kk == IF k.given THEN k ELSE [given |-> TRUE, v |-> SearchCommandK]
        r  == CaughtSearch(search_only(st, query, kk, storeOk))
    IN  IF ~SearchCommand_validate(query)
        THEN [result |-> SearchDict(FALSE, "Termo de busca nao fornecido", << >>),
              calls |-> << >>]
        ELSE IF r.result.flag /\ r.result.count = 0
        THEN [result |-> SearchDict(FALSE, "Nenhum documento encontrado", << >>),
              calls |-> r.calls]
        ELSE r

\* SearchCommand.execute(query=, k=): k is kwargs.get('k', 3)
SearchCommand_execute(st, query, k, storeOk) ==
    LET kk == IF k.given THEN k ELSE [given |-> TRUE, v |-> SearchCommandK]
    IN  IF ~SearchCommand_validate(query)
        THEN [result |-> SearchDict(FALSE, "Termo de busca nao fornecido", << >>),
              calls |-> << >>]
        ELSE CaughtSearch(search_only(st, query, kk, storeOk))

\* search of src/src/main.py, called with args.k: the value of -k, or its
\* default.  Returns None; flag tells whether the results were printed
main_search(st, query, k, storeOk) ==
    LET kk == IF k.given THEN k ELSE [given |-> TRUE, v |-> MainSearchK]
    IN  CaughtSearch(search_only(st, query, kk, storeOk))

\* what the user may type when the menu asks for the number of results
Choices == {"", " ", "x"} \cup {ToString(n) : n \in -1..MaxK}

\* the numerals a user types: the k of a search, the options of the menus
Numerals == -1..8

IsNumeral(choice) == \E n \in Numerals : ToString(n) = choice

\* int(choice); ValueError when the text is not a numeral
int(choice) == CHOOSE n \in Numerals : ToString(n) = choice

\* SearchResultsState.handle_input: the k it passes to the command
SearchResultsState_k(choice) ==
    IF strip(choice) = "" THEN MenuSearchK
    ELSE IF IsNumeral(choice) THEN int(choice)
    ELSE MenuSearchK

\* SearchResultsState.handle_input(choice) of the state entered with query
SearchResultsState_handle_input(st, query, choice, storeOk) ==
    SearchCommand_execute(st, query,
                          [given |-> TRUE, v |-> SearchResultsState_k(choice)], storeOk)

(***************************************************************************)
(* The QA chain (RetrievalQA over the retriever and the LLM), RAGChain.chat *)
(* and ChatCommand                                                         *)
(***************************************************************************)
\* what qa_chain.invoke may do: answer, fail retrieving, fail generating
ChainOutcomes == {"ok", "retrieval", "generation"}

NoAnswer == [question |-> "", context |-> << >>]

\* the text the LLM generates for a question and its context
generate(query, docs) == [question |-> query, context |-> docs]

\* get_retriever(): as_retriever(search_kwargs={"k": k or Config.SEARCH_K})
retrieve(st, query) == similarity_search(st, query, Config.SEARCH_K, NoFilter)

\* the dictionary of the chain: "result" and "source_documents"
ChainResult(answer, docs) ==
    [kind |-> "return", error |-> "", count |-> Len(docs), flag |-> TRUE,
     docs |-> docs, answer |-> answer, keys |-> {"query", "result", "source_documents"}]

\* qa_chain.invoke({"query": query}), built with return_source_documents=True
qa_chain_invoke(st, query, outcome) ==
    CASE outcome = "retrieval"  -> Raise("RetrievalError")
      [] outcome = "generation" -> Raise("GenerationError")
      [] OTHER -> ChainResult(generate(query, retrieve(st, query)), retrieve(st, query))

\* doc.page_content[:200] + "..." if len(doc.page_content) > 200 else doc.page_content
content_preview(len) == [chars |-> Min(len, PreviewLen), dots |-> len > PreviewLen]

\* the lines chat prints for the sources, one entry per source document
SourceLines(docs) ==
    [i \in DOMAIN docs |->
        [source |-> docs[i].source, page |-> docs[i].page,
         excerpt |-> content_preview(docs[i].len)]]

ChatOut(res, cs, sh) == [result |-> res, calls |-> cs, shown |-> sh]

\* chat that invokes the chain a second time when the first call fails
chat_retry(st, query, show_sources, outcome) ==
    LET first  == qa_chain_invoke(st, query, outcome)
        second == qa_chain_invoke(st, query, "ok")
    IN  IF first.kind = "raise"
        THEN ChatOut(second,
                     <<Call("qa_chain.invoke", query, 0, FALSE, FALSE),
                       Call("qa_chain.invoke", query, 0, FALSE, TRUE)>>,
                     IF show_sources THEN SourceLines(second.docs) ELSE << >>)
        ELSE ChatOut(first, <<Call("qa_chain.invoke", query, 0, FALSE, TRUE)>>,
                     IF show_sources THEN SourceLines(first.docs) ELSE << >>)

\* chat that answers with what it has when the chain fails
chat_partial(st, query, show_sources, outcome) ==
    LET res == qa_chain_invoke(st, query, outcome)
        c   == <<Call("qa_chain.invoke", query, 0, FALSE, res.kind = "return")>>
    IN  IF res.kind = "raise"
        THEN ChatOut(ChainResult(generate(query, << >>), << >>), c, << >>)
        ELSE ChatOut(res, c, IF show_sources THEN SourceLines(res.docs) ELSE << >>)

\* chat that lists the sources whatever show_sources is
chat_always_lists(st, query, show_sources, outcome) ==
    LET res == qa_chain_invoke(st, query, outcome)
        c   == <<Call("qa_chain.invoke", query, 0, FALSE, res.kind = "return")>>
    IN  IF res.kind = "raise"
        THEN ChatOut(res, c, << >>)
        ELSE ChatOut(res, c, SourceLines(res.docs))

\* RAGChain.chat(query, show_sources): one call of the chain, the sources
\* printed when asked for, the chain's dictionary returned, an exception re-raised
chat(st, query, show_sources, outcome) ==
    LET res == qa_chain_invoke(st, query, outcome)
        c   == <<Call("qa_chain.invoke", query, 0, FALSE, res.kind = "return")>>
    IN  IF res.kind = "raise"
        THEN ChatOut(res, c, << >>)
        ELSE ChatOut(res, c,
                     IF show_sources /\ res.docs # << >>
                     THEN SourceLines(res.docs) ELSE << >>)

\* ChatCommand.validate
ChatCommand_validate(query) == ~(Falsy(query) \/ strip(query) = "")

\* the dictionary ChatCommand.execute returns: flag is "success", answer and
\* docs are the entries of "result", keys are the keys it has
ChatDict(success, error, res) ==
    [kind |-> "return", error |-> error, count |-> Len(res.docs), flag |-> success,
     docs |-> res.docs, answer |-> res.answer,
     keys |-> IF success THEN {"success", "query", "result", "message"}
                         ELSE {"success", "error"}]

NoResult == [docs |-> << >>, answer |-> NoAnswer]

\* ChatCommand.execute that asks the chain before it looks at the query
ChatCommand_execute_late_check(st, query, show_sources, outcome) ==
    LET r == chat(st, query, show_sources, outcome)
    IN  IF ~ChatCommand_validate(query)
        THEN ChatOut(ChatDict(FALSE, "Pergunta nao fornecida", NoResult),
                     r.calls, r.shown)
        ELSE IF r.result.kind = "raise"
        THEN ChatOut(ChatDict(FALSE, "Erro ao processar pergunta: " \o r.result.error,
                              NoResult),
                     r.calls, r.shown)
        ELSE ChatOut(ChatDict(TRUE, "", r.result), r.calls, r.shown)

\* ChatCommand.execute(query=, show_sources=)
ChatCommand_execute(st, query, show_sources, outcome) ==
    LET r == chat(st, query, show_sources, outcome)
    IN  IF ~ChatCommand_validate(query)
        THEN ChatOut(ChatDict(FALSE, "Pergunta nao fornecida", NoResult), << >>, << >>)
        ELSE IF r.result.kind = "raise"
        THEN ChatOut(ChatDict(FALSE, "Erro ao processar pergunta: " \o r.result.error,
                              NoResult),
                     r.calls, r.shown)
        ELSE ChatOut(ChatDict(TRUE, "", r.result), r.calls, r.shown)

(***************************************************************************)
(* Construction: VectorStoreManager.__init__ and RAGChain.__init__         *)
(***************************************************************************)
\* RecursiveCharacterTextSplitter(chunk_size=, chunk_overlap=): the library
\* rejects an overlap larger than the size; whether it rejects a size <= 0 or
\* an overlap < 0 depends on its release
TextSplitterOutcomes(chunk_size, chunk_overlap) ==
    IF chunk_overlap > chunk_size THEN {"ValueError"}
    ELSE IF chunk_size <= 0 \/ chunk_overlap < 0 THEN {"ok", "ValueError"}
    ELSE {"ok"}

Built(b, res, cs) == [built |-> b, result |-> res, calls |-> cs]

\* VectorStoreManager.__init__: b is what the process has constructed so far
VectorStoreManager_init(b) ==
    LET c0 == <<Call("Config.validate_config", "", 0, FALSE, validate_config)>>
        c1 == c0 \o <<Call("OpenAIEmbeddings", "", 0, FALSE, TRUE)>>
    IN  IF ~validate_config
        THEN {Built(b, Raise("ValueError"), c0)}
        ELSE {Built(b \cup {"OpenAIEmbeddings"}, Raise("ConnectionError"),
                    c1 \o <<Call("PGVector", "", 0, FALSE, FALSE)>>)}
             \cup
             {LET c3 == c1 \o <<Call("PGVector", "", 0, FALSE, TRUE),
                                Call("RecursiveCharacterTextSplitter", "",
                                     Config.CHUNK_SIZE, FALSE, o = "ok")>>
              IN  IF o = "ok"
                  THEN Built(b \cup VsmParts, Return(0, TRUE, << >>), c3)
                  ELSE Built(b \cup {"OpenAIEmbeddings", "PGVector"}, Raise(o), c3)
              : o \in TextSplitterOutcomes(Config.CHUNK_SIZE, Config.CHUNK_OVERLAP)}

\* RAGChain.__init__(vector_store_manager): given tells whether the caller
\* passes the manager it has constructed
RAGChain_init(b, given) ==
    LET c0 == <<Call("Config.validate_config", "", 0, FALSE, validate_config)>>
        tail == <<Call("ChatOpenAI", "", 0, FALSE, TRUE),
                  Call("get_retriever", "", Config.SEARCH_K, FALSE, TRUE),
                  Call("RetrievalQA.from_chain_type", "", 0, FALSE, TRUE)>>
    IN  IF ~validate_config
        THEN {Built(b, Raise("ValueError"), c0)}
        ELSE IF given
        THEN {Built(b \cup RagParts, Return(0, TRUE, << >>), c0 \o tail)}
        ELSE {IF m.result.kind = "raise"
              THEN Built(m.built, m.result, c0 \o m.calls)
              ELSE Built(m.built \cup RagParts, Return(0, TRUE, << >>),
                         c0 \o m.calls \o tail)
              : m \in VectorStoreManager_init(b)}

(***************************************************************************)
(* InfoCommand and TestCommand                                             *)
(***************************************************************************)
\* the dictionary InfoCommand.execute returns: flag is "success", info is
\* "info"
InfoDict(success, error, info) ==
    [kind |-> "return", error |-> error, count |-> 0, flag |-> success,
     docs |-> << >>, info |-> info]

\* InfoCommand.execute: get_collection_info does not raise, so the except
\* clause is never entered
InfoCommand_execute(st, storeOk) ==
    LET info == get_collection_info(st, storeOk)
    IN  [result |-> InfoDict(TRUE, "",
                             [collection_name |-> info.collection_name,
                              has_documents   |-> info.has_documents,
                              embedding_model |-> info.embedding_model]),
         calls |-> info.calls]

\* TestCommand.execute: constructs a VectorStoreManager of its own, then
\* lists the models of the OpenAI account
TestCommand_execute(listOk) ==
    {IF m.result.kind = "raise"
     THEN [result |-> Dict(FALSE, "Erro nos testes: " \o m.result.error, 0),
           calls |-> m.calls]
     ELSE [result |-> IF listOk THEN Dict(TRUE, "", 0)
                                ELSE Dict(FALSE, "Erro nos testes: APIError", 0),
           calls |-> m.calls \o <<Call("openai.models.list", "", 0, FALSE, listOk)>>]
     : m \in VectorStoreManager_init({})}

(***************************************************************************)
(* The menu state machine (src/src/ui/menu_state.py)                       *)
(***************************************************************************)
\* a state object: its class and the pdf_path or query it was created with
St(name, arg) == [name |-> name, arg |-> arg]

MainMenuState == St("MainMenuState", NoPath)
InfoState == St("InfoState", NoPath)
IndexMenuState == St("IndexMenuState", NoPath)
ChatMenuState == St("ChatMenuState", NoPath)
SearchMenuState == St("SearchMenuState", NoPath)
InteractiveModeState == St("InteractiveModeState", NoPath)
TestState == St("TestState", NoPath)
HelpState == St("HelpState", NoPath)
ManualIndexState == St("ManualIndexState", NoPath)
CustomChatState == St("CustomChatState", NoPath)
CustomSearchState == St("CustomSearchState", NoPath)
ReindexMenuState == St("ReindexMenuState", NoPath)
RemoveMenuState == St("RemoveMenuState", NoPath)
PDFOptionsState(pdf_path) == St("PDFOptionsState", pdf_path)
ConfirmReindexState(pdf_path) == St("ConfirmReindexState", pdf_path)
ConfirmForceIndexState(pdf_path) == St("ConfirmForceIndexState", pdf_path)
ConfirmRemoveState(pdf_path) == St("ConfirmRemoveState", pdf_path)
PDFInfoState(pdf_path) == St("PDFInfoState", pdf_path)
SearchResultsState(query) == St("SearchResultsState", query)

\* display() or handle_input() returned None
NoState == St("None", NoPath)

\* str.lower() on the answers of the model
lower(text) == IF text = "S" THEN "s" ELSE text

Affirmative == {"s", "sim", "y", "yes"}

Negative == {"n", "não", "nao", "no"}

\* the suggestions of ChatMenuState and of SearchMenuState; the last entry
\* asks for a text of the user's own
ChatSuggestions ==
    <<"O que e inteligencia artificial?", "Quais sao os tipos de IA?",
      "Quais sao as aplicacoes da IA?", "Quais sao os desafios da IA?",
      "Resuma o conteudo em 3 pontos", "Pergunta personalizada...">>

SearchSuggestions ==
    <<"inteligencia artificial", "machine learning", "deep learning",
      "processamento de linguagem natural", "aplicacoes da IA", "desafios da IA",
      "Termo personalizado...">>

\* what Path("data/documents") holds: None when the directory does not
\* exist, else the paths glob("*.pdf") yields
Listings == {None, << >>, <<"a.pdf">>}

\* a command a state runs: IndexCommand ("index"), ChatCommand ("chat"),
\* SearchCommand ("search"), InfoCommand ("info"), TestCommand ("test"),
\* remove_document ("remove"), or nothing ("none"); text is the answer
\* SearchResultsState takes its k from
Cmd(name, arg, force, text) == [name |-> name, arg |-> arg, force |-> force, text |-> text]

NoCmd == Cmd("none", NoPath, FALSE, "")

\* what display() or handle_input() did: the state it returned, the paths
\* it asked get_document_info about, the command it ran after that
Step(next, probed, cmd) == [next |-> next, probed |-> probed, cmd |-> cmd]

\* a method that calls no command and no store
Quiet(next) == Step(next, << >>, NoCmd)

\* the files of the listing that get_document_info reports as indexed;
\* exists[f] is the answer for f
Indexed(docs, exists) == SelectSeq(docs, LAMBDA f : exists[f])

\* command.execute(pdf_path=, force=) of the index command, as the states
\* call it: the result is shown, the next state is IndexMenuState
MenuIndex(pdf_path, force) ==
    Step(IndexMenuState, << >>, Cmd("index", pdf_path, force, ""))

\* command.execute(query=, show_sources=True) of the chat command
MenuChat(query, next) == Step(next, << >>, Cmd("chat", query, TRUE, ""))

\* command.execute() of the info command
MenuInfo(next) == Step(next, << >>, Cmd("info", NoPath, FALSE, ""))

\* MainMenuState.handle_input
MainMenuState_handle_input(self, choice) ==
    Quiet(CASE choice = "0" -> NoState
            [] choice = "1" -> InfoState
            [] choice = "2" -> IndexMenuState
            [] choice = "3" -> ChatMenuState
            [] choice = "4" -> SearchMenuState
            [] choice = "5" -> InteractiveModeState
            [] choice = "6" -> TestState
            [] choice = "7" -> HelpState
            [] OTHER -> self)

\* IndexMenuState.display
IndexMenuState_display(docs) ==
    IF docs = None THEN Quiet(NoState) ELSE Step(NoState, docs, NoCmd)

\* IndexMenuState.handle_input
IndexMenuState_handle_input(self, choice, docs) ==
    IF docs = None \/ docs = << >>
    THEN Quiet(CASE choice = "1" -> ManualIndexState
                 [] choice = "2" -> MainMenuState
                 [] OTHER -> self)
    ELSE IF ~IsNumeral(choice) THEN Quiet(self)
    ELSE LET choice_num == int(choice)
             n == Len(docs)
         IN  Quiet(CASE choice_num >= 1 /\ choice_num <= n ->
                            PDFOptionsState(docs[choice_num])
                     [] choice_num = n + 1 -> ManualIndexState
                     [] choice_num = n + 2 -> ReindexMenuState
                     [] choice_num = n + 3 -> RemoveMenuState
                     [] choice_num = n + 4 -> MainMenuState
                     [] OTHER -> self)

\* PDFOptionsState.display
PDFOptionsState_display(self) == Step(NoState, <<self.arg>>, NoCmd)

\* PDFOptionsState._index_pdf
PDFOptionsState_index_pdf(self) == MenuIndex(self.arg, FALSE)

\* PDFOptionsState.handle_input
PDFOptionsState_handle_input(self, choice, exists) ==
    LET probed(step) == [step EXCEPT !.probed = <<self.arg>>]
    IN  IF exists[self.arg]
        THEN probed(Quiet(CASE choice = "1" -> ConfirmReindexState(self.arg)
                            [] choice = "2" -> PDFInfoState(self.arg)
                            [] choice = "3" -> IndexMenuState
                            [] OTHER -> self))
        ELSE IF choice = "1" THEN probed(PDFOptionsState_index_pdf(self))
        ELSE probed(Quiet(IF choice = "3" THEN IndexMenuState ELSE self))

\* ConfirmReindexState._reindex_pdf
ConfirmReindexState_reindex_pdf(self) == MenuIndex(self.arg, TRUE)

\* a ConfirmReindexState that reindexes on every answer
ConfirmReindexState_handle_input_unasked(self, choice) ==
    ConfirmReindexState_reindex_pdf(self)

\* ConfirmReindexState.handle_input
ConfirmReindexState_handle_input(self, choice) ==
    IF lower(choice) \in Affirmative THEN ConfirmReindexState_reindex_pdf(self)
    ELSE IF lower(choice) \in Negative THEN Quiet(IndexMenuState)
    ELSE Quiet(self)

\* ManualIndexState.handle_input
ManualIndexState_handle_input(self, choice) ==
    IF strip(choice) = "" THEN Quiet(IndexMenuState)
    ELSE Quiet(ConfirmForceIndexState(strip(choice)))

\* ConfirmForceIndexState.handle_input
ConfirmForceIndexState_handle_input(self, choice) ==
    LET force == lower(choice) \in Affirmative
    IN  MenuIndex(self.arg, force)

\* ChatMenuState._process_chat
ChatMenuState_process_chat(query) == MenuChat(query, MainMenuState)

\* ChatMenuState.handle_input
ChatMenuState_handle_input(self, choice) ==
    IF ~IsNumeral(choice) THEN Quiet(self)
    ELSE LET choice_num == int(choice)
         IN  IF choice_num >= 1 /\ choice_num <= Len(ChatSuggestions) - 1
             THEN ChatMenuState_process_chat(ChatSuggestions[choice_num])
             ELSE IF choice_num = Len(ChatSuggestions) THEN Quiet(CustomChatState)
             ELSE Quiet(self)

\* CustomChatState.handle_input
CustomChatState_handle_input(self, choice) ==
    IF strip(choice) = "" THEN Quiet(ChatMenuState)
    ELSE MenuChat(strip(choice), MainMenuState)

\* SearchMenuState.handle_input
SearchMenuState_handle_input(self, choice) ==
    IF ~IsNumeral(choice) THEN Quiet(self)
    ELSE LET choice_num == int(choice)
         IN  Quiet(CASE choice_num >= 1 /\ choice_num <= Len(SearchSuggestions) - 1 ->
                            SearchResultsState(SearchSuggestions[choice_num])
                     [] choice_num = Len(SearchSuggestions) -> CustomSearchState
                     [] OTHER -> self)

\* CustomSearchState.handle_input
CustomSearchState_handle_input(self, choice) ==
    IF strip(choice) = "" THEN Quiet(SearchMenuState)
    ELSE Quiet(SearchResultsState(strip(choice)))

\* SearchResultsState.handle_input, with the state it returns
SearchResultsState_step(self, choice) ==
    Step(MainMenuState, << >>, Cmd("search", self.arg, FALSE, choice))

\* an InteractiveModeState that takes 'sair', 'exit' and 'quit' for questions
InteractiveModeState_handle_input_no_exit(self, choice) ==
    IF strip(choice) = "" THEN Quiet(self)
    ELSE IF lower(choice) = "info" THEN MenuInfo(self)
    ELSE MenuChat(choice, self)

\* InteractiveModeState.handle_input
InteractiveModeState_handle_input(self, choice) ==
    IF strip(choice) = "" THEN Quiet(self)
    ELSE IF lower(choice) \in {"sair", "exit", "quit"} THEN Quiet(MainMenuState)
    ELSE IF lower(choice) = "info" THEN MenuInfo(self)
    ELSE MenuChat(choice, self)

\* TestState.display
TestState_display == Step(MainMenuState, << >>, Cmd("test", NoPath, FALSE, ""))

\* HelpState.display
HelpState_display == Quiet(MainMenuState)

\* InfoState.display
InfoState_display == MenuInfo(MainMenuState)

\* ReindexMenuState.display: the list of the indexed PDFs, or back to
\* IndexMenuState when there is none
ReindexMenuState_display(docs, exists) ==
    IF docs = None THEN Quiet(IndexMenuState)
    ELSE Step(IF Indexed(docs, exists) = << >> THEN IndexMenuState ELSE NoState,
              docs, NoCmd)

\* RemoveMenuState.display, the same for the PDFs to remove
RemoveMenuState_display(docs, exists) ==
    IF docs = None THEN Quiet(IndexMenuState)
    ELSE Step(IF Indexed(docs, exists) = << >> THEN IndexMenuState ELSE NoState,
              docs, NoCmd)

\* ReindexMenuState.handle_input
ReindexMenuState_handle_input(self, choice, docs, exists) ==
    IF docs = None THEN Quiet(IndexMenuState)
    ELSE LET indexed_pdfs == Indexed(docs, exists)
             n == Len(indexed_pdfs)
         IN  Step(IF n = 0 THEN IndexMenuState
                  ELSE IF ~IsNumeral(choice) THEN self
                  ELSE IF int(choice) >= 1 /\ int(choice) <= n
                       THEN ConfirmReindexState(indexed_pdfs[int(choice)])
                  ELSE IF int(choice) = n + 1 THEN IndexMenuState
                  ELSE self,
                  docs, NoCmd)

\* RemoveMenuState.handle_input
RemoveMenuState_handle_input(self, choice, docs, exists) ==
    IF docs = None THEN Quiet(IndexMenuState)
    ELSE LET indexed_pdfs == Indexed(docs, exists)
             n == Len(indexed_pdfs)
         IN  Step(IF n = 0 THEN IndexMenuState
                  ELSE IF ~IsNumeral(choice) THEN self
                  ELSE IF int(choice) >= 1 /\ int(choice) <= n
                       THEN ConfirmRemoveState(indexed_pdfs[int(choice)])
                  ELSE IF int(choice) = n + 1 THEN IndexMenuState
                  ELSE self,
                  docs, NoCmd)

\* ConfirmRemoveState.handle_input
ConfirmRemoveState_handle_input(self, choice) ==
    IF lower(choice) \in Affirmative
    THEN Step(RemoveMenuState, << >>, Cmd("remove", self.arg, FALSE, ""))
    ELSE IF lower(choice) \in Negative THEN Quiet(RemoveMenuState)
    ELSE Quiet(self)

\* PDFInfoState.display
PDFInfoState_display(self) == Step(NoState, <<self.arg>>, NoCmd)

\* a PDFInfoState whose handle_input returns None
PDFInfoState_handle_input_none(self, choice) == Quiet(NoState)

\* PDFInfoState.handle_input
PDFInfoState_handle_input(self, choice) == Quiet(PDFOptionsState(self.arg))

\* current_state.display() by the class of the state
display(self, docs, exists) ==
    CASE self.name = "IndexMenuState" -> IndexMenuState_display(docs)
      [] self.name = "PDFOptionsState" -> PDFOptionsState_display(self)
      [] self.name = "PDFInfoState" -> PDFInfoState_display(self)
      [] self.name = "TestState" -> TestState_display
      [] self.name = "HelpState" -> HelpState_display
      [] self.name = "InfoState" -> InfoState_display
      [] self.name = "ReindexMenuState" -> ReindexMenuState_display(docs, exists)
      [] self.name = "RemoveMenuState" -> RemoveMenuState_display(docs, exists)
      [] OTHER -> Quiet(NoState)

\* current_state.handle_input(choice) by the class of the state
handle_input(self, choice, docs, exists) ==
    CASE self.name = "MainMenuState" -> MainMenuState_handle_input(self, choice)
      [] self.name = "IndexMenuState" -> IndexMenuState_handle_input(self, choice, docs)
      [] self.name = "PDFOptionsState" ->
             PDFOptionsState_handle_input(self, choice, exists)
      [] self.name = "ConfirmReindexState" ->
             ConfirmReindexState_handle_input(self, choice)
      [] self.name = "ManualIndexState" -> ManualIndexState_handle_input(self, choice)
      [] self.name = "ConfirmForceIndexState" ->
             ConfirmForceIndexState_handle_input(self, choice)
      [] self.name = "ChatMenuState" -> ChatMenuState_handle_input(self, choice)
      [] self.name = "CustomChatState" -> CustomChatState_handle_input(self, choice)
      [] self.name = "SearchMenuState" -> SearchMenuState_handle_input(self, choice)
      [] self.name = "CustomSearchState" -> CustomSearchState_handle_input(self, choice)
      [] self.name = "SearchResultsState" -> SearchResultsState_step(self, choice)
      [] self.name = "InteractiveModeState" ->
             InteractiveModeState_handle_input(self, choice)
      [] self.name = "ReindexMenuState" ->
             ReindexMenuState_handle_input(self, choice, docs, exists)
      [] self.name = "RemoveMenuState" ->
             RemoveMenuState_handle_input(self, choice, docs, exists)
      [] self.name = "ConfirmRemoveState" ->
             ConfirmRemoveState_handle_input(self, choice)
      [] self.name = "PDFInfoState" -> PDFInfoState_handle_input(self, choice)
      [] OTHER -> Quiet(MainMenuState)

\* what get_document_info answers about each path in one call of display
\* or handle_input
Answers(st, storeOk) ==
    [f \in Paths |-> get_document_info(st, f, storeOk).exists]

\* the calls of get_document_info a method made
ProbeCalls(st, probed, storeOk) ==
    [i \in DOMAIN probed |-> get_document_info(st, probed[i], storeOk).calls[1]]

\* the command of a step executed, as the state's method calls it: the
\* outcomes it may have, each with the calls logged and the sources shown
Execute(st, nb, cmd) ==
    CASE cmd.name = "index" ->
           {[out |-> Out(r.store, r.nextBatch, r.result,
                         <<Call("IndexCommand.execute", cmd.arg, 0, cmd.force,
                                r.result.flag)>> \o r.calls),
             shown |-> << >>]
            : r \in IndexCommand_execute(st, nb, cmd.arg, cmd.force)}
      [] cmd.name = "chat" ->
           {LET r == ChatCommand_execute(st, cmd.arg, TRUE, outcome)
            IN  [out |-> Out(st, nb, r.result,
                             <<Call("ChatCommand.execute", cmd.arg, 0, FALSE,
                                    r.result.flag)>> \o r.calls),
                 shown |-> r.shown]
            : outcome \in ChainOutcomes}
      [] cmd.name = "search" ->
           {LET r == SearchResultsState_handle_input(st, cmd.arg, cmd.text, storeOk)
            IN  [out |-> Out(st, nb, r.result,
                             <<Call("SearchCommand.execute", cmd.arg,
                                    SearchResultsState_k(cmd.text), FALSE,
                                    r.result.flag)>> \o r.calls),
                 shown |-> << >>]
            : storeOk \in BOOLEAN}
      [] cmd.name = "info" ->
           {LET r == InfoCommand_execute(st, storeOk)
            IN  [out |-> Out(st, nb, r.result,
                             <<Call("InfoCommand.execute", "", 0, FALSE,
                                    r.result.flag)>> \o r.calls),
                 shown |-> << >>]
            : storeOk \in BOOLEAN}
      [] cmd.name = "test" ->
           {[out |-> Out(st, nb, r.result,
                         <<Call("TestCommand.execute", "", 0, FALSE, r.result.flag)>>
                           \o r.calls),
             shown |-> << >>]
            : r \in UNION {TestCommand_execute(listOk) : listOk \in BOOLEAN}}
      [] cmd.name = "remove" ->
           {LET rm == remove_document(st, cmd.arg, storeOk)
            IN  [out |-> Out(rm.store, nb, Return(0, rm.ret, << >>),
                             <<Call("VectorStoreManager.remove_document", cmd.arg, 0,
                                    FALSE, rm.ret)>> \o rm.calls),
                 shown |-> << >>]
            : storeOk \in BOOLEAN}
      [] OTHER -> {[out |-> Out(st, nb, Return(0, FALSE, << >>), << >>),
                    shown |-> << >>]}

\* MenuContext: phase is "off" before run(), "display" at the top of the
\* loop, "input" at get_input, "ended" after the loop; displays counts the
\* display() calls made since an input was last read, up to MaxDisplays
Menu(phase, current_state, running, displays, docs) ==
    [phase |-> phase, current_state |-> current_state, running |-> running,
     displays |-> displays, docs |-> docs]

\* MenuContext.__init__: no state yet, running
NoMenu == Menu("off", NoState, TRUE, 0, None)

(***************************************************************************)
(* The state machine                                                       *)
(***************************************************************************)
Op(name, path, force, query, k) ==
    [name |-> name, path |-> path, force |-> force, query |-> query, k |-> k]

NoK == [given |-> FALSE, v |-> 0]

\* the callers that may be inside index_pdf at the same time
Callers == {1, 2}

NoInfo == [exists |-> FALSE, chunks_count |-> 0, filename |-> NoPath, calls |-> << >>]

\* where a caller is in its call of index_pdf: pc is "idle" before the call,
\* "probed" between get_document_info and the rest, "returned" after it
Caller(pc, path, force, doc_info, cs, res) ==
    [pc |-> pc, path |-> path, force |-> force, doc_info |-> doc_info,
     calls |-> cs, result |-> res]

Idle == Caller("idle", NoPath, FALSE, NoInfo, << >>, Return(0, FALSE, << >>))

\* the collection is empty and nothing has been called
Fresh ==
    /\ procs = [c \in Callers |-> Idle]
    /\ menu = NoMenu
    /\ store = EmptyBag
    /\ nextBatch = 0
    /\ op = Op("init", NoPath, FALSE, "", NoK)
    /\ result = Return(0, FALSE, << >>)
    /\ calls = << >>
    /\ shown = << >>

\* a process with the default configuration, its RAGChain constructed
Init ==
    /\ Fresh
    /\ env = DefaultEnv
    /\ built = VsmParts \cup RagParts

\* the object a method is called on
Needs(name) ==
    IF name \in {"VectorStoreManager.index_pdf", "VectorStoreManager.get_document_info",
                 "VectorStoreManager.check_document_exists",
                 "VectorStoreManager.remove_document",
                 "VectorStoreManager.get_collection_info",
                 "VectorStoreManager.search_similar"}
    THEN {"VectorStoreManager"}
    ELSE {"VectorStoreManager", "RAGChain"}

\* commit the outcome of a constructor
CommitBuilt(o, out) ==
    /\ op' = o
    /\ result' = out.result
    /\ calls' = out.calls
    /\ built' = out.built
    /\ shown' = << >>
    /\ UNCHANGED <<store, nextBatch, env, procs, menu>>

\* commit the outcome of a chat: the store is only read
CommitChat(o, out) ==
    /\ Needs(o.name) \subseteq built
    /\ op' = o
    /\ result' = out.result
    /\ calls' = out.calls
    /\ shown' = out.shown
    /\ UNCHANGED <<store, nextBatch, env, built, procs, menu>>

\* commit the outcome of an operation as the new state
Commit(o, out) ==
    /\ Needs(o.name) \subseteq built
    /\ out.nextBatch <= MaxAdds
    /\ shown' = << >>
    /\ UNCHANGED <<env, built, procs, menu>>
    /\ store' = out.store
    /\ nextBatch' = out.nextBatch
    /\ op' = o
    /\ result' = out.result
    /\ calls' = out.calls

\* a caller invokes VectorStoreManager.index_pdf(pdf_path, force)
DoIndexPdf ==
    \E p \in Paths, f \in BOOLEAN :
      \E out \in index_pdf(store, nextBatch, p, f) :
        Commit(Op("VectorStoreManager.index_pdf", p, f, "", NoK), out)

\* a caller invokes RAGChain.index_pdf(pdf_path)
DoRagIndexPdf ==
    \E p \in Paths :
      \E out \in RAGChain_index_pdf(store, nextBatch, <<p>>) :
        Commit(Op("RAGChain.index_pdf", p, FALSE, "", NoK), out)

\* a menu or a caller invokes IndexCommand.execute(pdf_path=, force=)
DoIndexCommand ==
    \E p \in Paths \cup {EmptyPath}, f \in BOOLEAN :
      \E out \in IndexCommand_execute(store, nextBatch, p, f) :
        Commit(Op("IndexCommand.execute", p, f, "", NoK), out)

\* the command line runs "index <path>"
DoMainIndexPdf ==
    \E p \in Paths :
      \E out \in main_index_pdf(store, nextBatch, p) :
        Commit(Op("main.index_pdf", p, FALSE, "", NoK), out)

\* a caller invokes VectorStoreManager.get_document_info(pdf_path)
DoGetDocumentInfo ==
    \E p \in Paths, ok \in BOOLEAN :
        LET info == get_document_info(store, p, ok)
        IN  Commit(Op("VectorStoreManager.get_document_info", p, FALSE, "", NoK),
                   Out(store, nextBatch,
                       Return(info.chunks_count, info.exists, << >>), info.calls))

\* a caller invokes VectorStoreManager.check_document_exists(pdf_path)
DoCheckDocumentExists ==
    \E p \in Paths, ok \in BOOLEAN :
        LET r == check_document_exists(store, p, ok)
        IN  Commit(Op("VectorStoreManager.check_document_exists", p, FALSE, "", NoK),
                   Out(store, nextBatch, Return(0, r.ret, << >>), r.calls))

\* a caller invokes VectorStoreManager.remove_document(pdf_path)
DoRemoveDocument ==
    \E p \in Paths, ok \in BOOLEAN :
        LET rm == remove_document(store, p, ok)
        IN  Commit(Op("VectorStoreManager.remove_document", p, FALSE, "", NoK),
                   Out(rm.store, nextBatch, Return(0, rm.ret, << >>), rm.calls))

\* get_collection_info that writes a test document before it searches for it
DoGetCollectionInfoWriting ==
    \E ok \in BOOLEAN :
        LET probe == <<[source |-> "test", page |-> 0, text |-> 1, len |-> 4]>>
            st    == add_documents(store, probe, nextBatch)
            info  == get_collection_info(st, ok)
        IN  Commit(Op("VectorStoreManager.get_collection_info", NoPath, FALSE, "", NoK),
                   Out(st, nextBatch + 1,
                       Return(0, info.has_documents,
                              <<info.collection_name, info.embedding_model>>),
                       info.calls))

\* a caller invokes VectorStoreManager.get_collection_info()
DoGetCollectionInfo ==
    \E ok \in BOOLEAN :
        LET info == get_collection_info(store, ok)
        IN  Commit(Op("VectorStoreManager.get_collection_info", NoPath, FALSE, "", NoK),
                   Out(store, nextBatch,
                       Return(0, info.has_documents,
                              <<info.collection_name, info.embedding_model>>),
                       info.calls))

\* a caller invokes VectorStoreManager.search_similar(query, k)
DoSearchSimilar ==
    \E q \in Queries, k \in KArgs, ok \in BOOLEAN :
        LET r == search_similar(store, q, k, ok)
        IN  Commit(Op("VectorStoreManager.search_similar", NoPath, FALSE, q, k),
                   Out(store, nextBatch, r.result, r.calls))

\* a caller invokes RAGChain.search_only(query, k)
DoSearchOnly ==
    \E q \in Queries, k \in KArgs, ok \in BOOLEAN :
        LET r == search_only(store, q, k, ok)
        IN  Commit(Op("RAGChain.search_only", NoPath, FALSE, q, k),
                   Out(store, nextBatch, r.result, r.calls))

\* a caller invokes SearchCommand.execute(query=, k=)
DoSearchCommand ==
    \E q \in QueryArgs, k \in KArgs, ok \in BOOLEAN :
        LET r == SearchCommand_execute(store, q, k, ok)
        IN  Commit(Op("SearchCommand.execute", NoPath, FALSE, q, k),
                   Out(store, nextBatch, r.result, r.calls))

\* the command line runs "search <query> [-k n]"
DoMainSearch ==
    \E q \in Queries, k \in KArgs, ok \in BOOLEAN :
        LET r == main_search(store, q, k, ok)
        IN  Commit(Op("main.search", NoPath, FALSE, q, k),
                   Out(store, nextBatch, r.result, r.calls))

\* the user answers the menu's question for the number of results; path holds
\* the text typed
DoMenuSearch ==
    \E q \in Queries, choice \in Choices, ok \in BOOLEAN :
        LET r == SearchResultsState_handle_input(store, q, choice, ok)
        IN  Commit(Op("SearchResultsState.handle_input", choice, FALSE, q,
                      [given |-> IsNumeral(choice),
                       v |-> IF IsNumeral(choice) THEN int(choice) ELSE 0]),
                   Out(store, nextBatch, r.result, r.calls))

\* a caller invokes RAGChain.chat(query, show_sources); force holds show_sources
DoChat ==
    \E q \in Queries, show \in BOOLEAN, outcome \in ChainOutcomes :
        CommitChat(Op("RAGChain.chat", NoPath, show, q, NoK),
                   chat(store, q, show, outcome))

\* a caller or the menu invokes ChatCommand.execute(query=, show_sources=)
DoChatCommand ==
    \E q \in QueryArgs, show \in BOOLEAN, outcome \in ChainOutcomes :
        CommitChat(Op("ChatCommand.execute", NoPath, show, q, NoK),
                   ChatCommand_execute(store, q, show, outcome))

\* the process constructs its VectorStoreManager
\* a caller invokes InfoCommand.execute()
DoInfoCommand ==
    \E ok \in BOOLEAN :
        LET r == InfoCommand_execute(store, ok)
        IN  Commit(Op("InfoCommand.execute", NoPath, FALSE, "", NoK),
                   Out(store, nextBatch, r.result, r.calls))

\* a caller invokes TestCommand.execute()
DoTestCommand ==
    \E listOk \in BOOLEAN :
      \E r \in TestCommand_execute(listOk) :
        Commit(Op("TestCommand.execute", NoPath, FALSE, "", NoK),
               Out(store, nextBatch, r.result, r.calls))

DoConstructVsm ==
    /\ "VectorStoreManager" \notin built
    /\ \E out \in VectorStoreManager_init(built) :
         CommitBuilt(Op("VectorStoreManager.__init__", NoPath, FALSE, "", NoK), out)

\* the process constructs its RAGChain, around the manager it has or a new one;
\* force holds whether the manager is passed
DoConstructRag ==
    /\ "RAGChain" \notin built
    /\ \E given \in {"VectorStoreManager" \in built} :
         \E out \in RAGChain_init(built, given) :
           CommitBuilt(Op("RAGChain.__init__", NoPath, given, "", NoK), out)

Next ==
    \/ DoIndexPdf
    \/ DoRagIndexPdf
    \/ DoIndexCommand
    \/ DoMainIndexPdf
    \/ DoGetDocumentInfo
    \/ DoCheckDocumentExists
    \/ DoRemoveDocument
    \/ DoGetCollectionInfo
    \/ DoSearchSimilar
    \/ DoSearchOnly

Spec == Init /\ [][Next]_vars

(***************************************************************************)
(* The entry points of indexing alone: the store changes through them only *)
(***************************************************************************)
\* a caller enters index_pdf(pdf_path, force): the file check and the
\* existence probe, lines 127-131; the store is read, nothing is written
IndexPdfProbe ==
    \E c \in Callers, p \in Paths, f \in BOOLEAN, probeOk \in BOOLEAN :
        LET c0 == <<Call("VectorStoreManager.index_pdf", p, 0, f, TRUE),
                    Call("os.path.exists", p, 0, FALSE, PathExists(p))>>
            doc_info == get_document_info(store, p, probeOk)
        IN  /\ "VectorStoreManager" \in built
            /\ procs[c].pc = "idle"
            /\ procs' = [procs EXCEPT ![c] =
                  IF ~PathExists(p)
                  THEN Caller("returned", p, f, NoInfo, c0, Raise("FileNotFoundError"))
                  ELSE Caller("probed", p, f, doc_info, c0 \o doc_info.calls,
                              Return(0, FALSE, << >>))]
            /\ UNCHANGED <<store, nextBatch, op, result, calls, env, built, shown,
                           menu>>

\* the caller goes on from the probe's answer, lines 133-158, on the store
\* as the other callers have left it
IndexPdfFinish ==
    \E c \in Callers :
        /\ procs[c].pc = "probed"
        /\ \E out \in index_pdf_probed(store, nextBatch, procs[c].path, procs[c].force,
                                       procs[c].doc_info, procs[c].calls) :
              /\ out.nextBatch <= MaxAdds
              /\ store' = out.store
              /\ nextBatch' = out.nextBatch
              /\ op' = Op("VectorStoreManager.index_pdf", procs[c].path,
                          procs[c].force, "", NoK)
              /\ result' = out.result
              /\ calls' = out.calls
              /\ procs' = [procs EXCEPT ![c].pc = "returned",
                                        ![c].calls = out.calls,
                                        ![c].result = out.result]
        /\ shown' = << >>
        /\ UNCHANGED <<env, built, menu>>

NextIndex ==
    \/ DoIndexPdf
    \/ DoRagIndexPdf
    \/ DoIndexCommand
    \/ DoMainIndexPdf

IndexSpec == Init /\ [][NextIndex]_vars

\* the operations that reach the collection: indexing (forced or not),
\* removal, search, chat and the information probes
NextStore ==
    \/ DoIndexPdf
    \/ DoRemoveDocument
    \/ DoSearchSimilar
    \/ DoChat
    \/ DoGetDocumentInfo
    \/ DoCheckDocumentExists
    \/ DoGetCollectionInfo

StoreSpec == Init /\ [][NextStore]_vars

\* the commands of src/src/commands, over a collection the command line
\* has filled
NextCommand ==
    \/ DoMainIndexPdf
    \/ DoIndexCommand
    \/ DoChatCommand
    \/ DoSearchCommand
    \/ DoInfoCommand
    \/ DoTestCommand

CommandSpec == Init /\ [][NextCommand]_vars

\* two callers share the collection, each making one call of index_pdf
NextInterleaved ==
    \/ IndexPdfProbe
    \/ IndexPdfFinish

InterleavedSpec == Init /\ [][NextInterleaved]_vars

(***************************************************************************)
(* Questions, over collections indexed with chunks longer and shorter than *)
(* an excerpt                                                              *)
(***************************************************************************)
\* the values of CHUNK_SIZE in the environment
ChatChunkSizes == {IntUnset, IntSet(100)}

InitChat ==
    /\ Fresh
    /\ env \in {Environ("sk-key", "secret", size, IntUnset, IntUnset)
                 : size \in ChatChunkSizes}
    /\ built = VsmParts \cup RagParts

NextChat ==
    \/ DoMainIndexPdf
    \/ DoChat
    \/ DoChatCommand

ChatSpec == InitChat /\ [][NextChat]_vars

(***************************************************************************)
(* Startup: the process starts under any environment, constructs its       *)
(* objects and then serves operations                                      *)
(***************************************************************************)
\* values of the credentials in the environment: not set, empty, set
StartKeys == {None, "", "sk-key"}

StartPasswords == {None, "", "secret"}

\* values of CHUNK_SIZE and CHUNK_OVERLAP in the environment: not set, zero,
\* and an overlap as large as the default size
StartChunkSizes == {IntUnset, IntSet(0)}

StartChunkOverlaps == {IntUnset, IntSet(0), IntSet(CHUNK_SIZE)}

InitStart ==
    /\ Fresh
    /\ env \in {Environ(key, password, size, overlap, IntUnset)
                 : key \in StartKeys, password \in StartPasswords,
                   size \in StartChunkSizes, overlap \in StartChunkOverlaps}
    /\ built = {}

NextStart ==
    \/ DoConstructVsm
    \/ DoConstructRag
    \/ DoMainIndexPdf
    \/ DoSearchSimilar
    \/ DoChat

StartSpec == InitStart /\ [][NextStart]_vars

(***************************************************************************)
(* The search entry points, under a configuration that may set SEARCH_K    *)
(***************************************************************************)
\* the values of SEARCH_K in the environment
SearchKs == {IntUnset, IntSet(2)}

InitSearch ==
    /\ Fresh
    /\ env \in {Environ("sk-key", "secret", IntUnset, IntUnset, k) : k \in SearchKs}
    /\ built = VsmParts \cup RagParts

NextSearch ==
    \/ DoMainIndexPdf
    \/ DoSearchSimilar
    \/ DoSearchOnly
    \/ DoSearchCommand
    \/ DoMainSearch
    \/ DoMenuSearch

SearchSpec == InitSearch /\ [][NextSearch]_vars

(***************************************************************************)
(* The menu loops: MenuContext.run over the states, MenuManager.run over   *)
(* handle_menu_choice                                                      *)
(***************************************************************************)
\* the display() calls without an input that are told apart
MaxDisplays == 3

\* what the user types at a prompt
Typed == {ToString(n) : n \in 0..8}
           \cup {"s", "S", "n", "x", "", " ", "sair", "info", "alpha", "a.pdf"}

\* commit a step of a menu loop: the command or store calls it made and the
\* loop's new position
CommitMenu(o, out, sh, m) ==
    /\ out.nextBatch <= MaxAdds
    /\ store' = out.store
    /\ nextBatch' = out.nextBatch
    /\ op' = o
    /\ result' = out.result
    /\ calls' = out.calls
    /\ shown' = sh
    /\ menu' = m
    /\ UNCHANGED <<env, built, procs>>

\* a count of display() calls, kept within MaxDisplays
Counted(n) == IF n > MaxDisplays THEN MaxDisplays ELSE n

\* MenuContext.run up to the loop: set_state(MainMenuState)
MenuRun ==
    /\ menu.phase = "off"
    /\ \E docs \in Listings :
         CommitMenu(Op("MenuContext.run", NoPath, FALSE, "", NoK),
                    Out(store, nextBatch, Return(0, FALSE, << >>), << >>), << >>,
                    Menu("display", MainMenuState, TRUE, 0, docs))

\* one pass of the loop up to get_input: current_state.display(), and
\* set_state and continue when it returned a state
MenuDisplay ==
    /\ menu.phase = "display"
    /\ \E storeOk \in BOOLEAN :
         LET step == display(menu.current_state, menu.docs, Answers(store, storeOk))
         IN  \E e \in Execute(store, nextBatch, step.cmd) :
         CommitMenu(Op(menu.current_state.name \o ".display", NoPath, FALSE,
                       menu.current_state.arg, NoK),
                    [e.out EXCEPT !.calls = ProbeCalls(store, step.probed, storeOk) \o @],
                    e.shown,
                    IF step.next # NoState
                    THEN Menu("display", step.next, menu.running,
                              Counted(menu.displays + 1), menu.docs)
                    ELSE Menu("input", menu.current_state, menu.running,
                              Counted(menu.displays + 1), menu.docs))

\* the rest of the pass: get_input returns the stripped text and
\* current_state.handle_input(choice) answers it
MenuInput ==
    /\ menu.phase = "input"
    /\ \E text \in Typed, storeOk \in BOOLEAN :
         LET choice  == strip(text)
             step    == handle_input(menu.current_state, choice, menu.docs,
                                     Answers(store, storeOk))
             running == IF step.next = NoState /\ choice = "0"
                        THEN FALSE ELSE menu.running
             next    == IF step.next # NoState THEN step.next
                        ELSE menu.current_state
         IN  \E e \in Execute(store, nextBatch, step.cmd) :
                   CommitMenu(Op(menu.current_state.name \o ".handle_input",
                                 choice, FALSE, menu.current_state.arg, NoK),
                              [e.out EXCEPT !.calls =
                                   ProbeCalls(store, step.probed, storeOk) \o @],
                              e.shown,
                              Menu(IF running THEN "display" ELSE "ended",
                                   next, running, 0, menu.docs))

\* get_input raises (EOFError on a closed input): except Exception shows
\* the error and sets MainMenuState; no input has been read
MenuInputRaises ==
    /\ menu.phase = "input"
    /\ CommitMenu(Op(menu.current_state.name \o ".handle_input", None, FALSE,
                     menu.current_state.arg, NoK),
                  Out(store, nextBatch, Raise("EOFError"), << >>), << >>,
                  Menu("display", MainMenuState, menu.running, menu.displays,
                       menu.docs))

\* Ctrl-C at the prompt: except KeyboardInterrupt breaks the loop
MenuInterrupt ==
    /\ menu.phase = "input"
    /\ CommitMenu(Op("MenuContext.run", NoPath, FALSE, "", NoK),
                  Out(store, nextBatch, Raise("KeyboardInterrupt"), << >>), << >>,
                  Menu("ended", menu.current_state, menu.running, 0, menu.docs))

\* the handlers of MenuManager.handle_menu_choice
Handlers ==
    [c \in {ToString(n) : n \in 0..7} |->
        CASE c = "0" -> "_handle_exit"
          [] c = "1" -> "_handle_info"
          [] c = "2" -> "_handle_index"
          [] c = "3" -> "_handle_chat"
          [] c = "4" -> "_handle_search"
          [] c = "5" -> "_handle_interactive"
          [] c = "6" -> "_handle_test"
          [] OTHER   -> "_handle_help"]

\* MenuManager.handle_menu_choice: the value it returns and the handler it
\* ran.  bodyOk is FALSE when the body of the handler raises; every handler
\* with a body that can raise catches the exception and returns True.
handle_menu_choice(choice, bodyOk) ==
    IF choice \in DOMAIN Handlers
    THEN [ret |-> Handlers[choice] # "_handle_exit",
          calls |-> <<Call(Handlers[choice], choice, 0, FALSE,
                           bodyOk \/ Handlers[choice] \in {"_handle_exit",
                                                          "_handle_help"})>>]
    ELSE [ret |-> TRUE, calls |-> << >>]

\* MenuManager.run up to the loop
MenuManagerRun ==
    /\ menu.phase = "off"
    /\ CommitMenu(Op("MenuManager.run", NoPath, FALSE, "", NoK),
                  Out(store, nextBatch, Return(0, FALSE, << >>), << >>), << >>,
                  Menu("choice", NoState, TRUE, 0, None))

\* one pass of the loop of MenuManager.run: display_menu returns the
\* stripped text, running becomes what handle_menu_choice returns.  The
\* dialogs of the handlers write nothing to the store: the index command
\* fails before it reaches it and remove_document only reads.
MenuManagerChoice ==
    /\ menu.phase = "choice"
    /\ \E text \in Typed, bodyOk \in BOOLEAN :
         LET choice == strip(text)
             h == handle_menu_choice(choice, bodyOk)
         IN  CommitMenu(Op("MenuManager.handle_menu_choice", choice, FALSE, "", NoK),
                        Out(store, nextBatch, Return(0, h.ret, << >>), h.calls), << >>,
                        Menu(IF h.ret THEN "choice" ELSE "ended", NoState, h.ret,
                             0, None))

\* display_menu raises in the loop of MenuManager.run: except Exception
\* shows the error, running is not assigned
MenuManagerRaises ==
    /\ menu.phase = "choice"
    /\ CommitMenu(Op("MenuManager.handle_menu_choice", None, FALSE, "", NoK),
                  Out(store, nextBatch, Raise("EOFError"), << >>), << >>, menu)

\* Ctrl-C in the loop of MenuManager.run: except KeyboardInterrupt breaks
\* the loop
MenuManagerInterrupt ==
    /\ menu.phase = "choice"
    /\ CommitMenu(Op("MenuManager.run", NoPath, FALSE, "", NoK),
                  Out(store, nextBatch, Raise("KeyboardInterrupt"), << >>), << >>,
                  Menu("ended", NoState, menu.running, 0, None))

\* the collection is empty or filled by one run of the command line's
\* index, then one of the two menu loops runs
NextMenu ==
    \/ (menu.phase = "off" /\ nextBatch = 0 /\ DoMainIndexPdf)
    \/ MenuRun
    \/ MenuDisplay
    \/ MenuInput
    \/ MenuInputRaises
    \/ MenuInterrupt
    \/ MenuManagerRun
    \/ MenuManagerChoice
    \/ MenuManagerRaises
    \/ MenuManagerInterrupt

MenuSpec == Init /\ [][NextMenu]_vars

(***************************************************************************)
(* Helpers of the properties                                               *)
(***************************************************************************)
RECURSIVE SumCopies(_, _)
SumCopies(st, S) ==
    IF S = {} THEN 0
    ELSE LET r == CHOOSE x \in S : TRUE
         IN  st[r] + SumCopies(st, S \ {r})

\* number of records tagged with a source
CountSource(st, src) == SumCopies(st, Matching(st, src))

IsVsmIndex(o) == o.name = "VectorStoreManager.index_pdf"

\* every collaborator call of the log succeeded
AllCallsOk(cs) == \A i \in DOMAIN cs : cs[i].ok

\* the log holds a call with this name
Called(cs, name) == \E i \in DOMAIN cs : cs[i].name = name

TypeOK ==
    /\ IsABag(store)
    /\ nextBatch \in 0..MaxAdds

IndexOps == {"VectorStoreManager.index_pdf", "RAGChain.index_pdf",
             "IndexCommand.execute", "main.index_pdf"}

\* the operations that raise to their caller; the others report in their result
DirectIndexOps == {"VectorStoreManager.index_pdf", "RAGChain.index_pdf"}

\* the last operation failed
Failed(o, r) == r.kind = "raise" \/ (o.name \in IndexOps \ DirectIndexOps /\ ~r.flag)

\* the log holds a failed call of the vector store
StoreCallFailed(cs) ==
    \E i \in DOMAIN cs :
        cs[i].name \in {"similarity_search", "add_documents"} /\ ~cs[i].ok

\* the forced reindex found the document indexed and called remove_document
RemoveCalled(cs) ==
    \E i \in DOMAIN cs : cs[i].name = "similarity_search" /\ cs[i].k = RemoveK

(***************************************************************************)
(* C1  Force reindex replaces, not appends: when a document is already     *)
(* indexed and VectorStoreManager.index_pdf(doc, force=True) returns, the  *)
(* number of records tagged with source = doc equals the returned (new)    *)
(* chunk count, never old count + new count.                               *)
(***************************************************************************)
C1_ForceReindexReplaces ==
    [][ ( /\ IsVsmIndex(op')
          /\ op'.force
          /\ result'.kind = "return"
          /\ AllCallsOk(calls')
          /\ CountSource(store, op'.path) > 0 )
        => CountSource(store', op'.path) = result'.count ]_vars

(***************************************************************************)
(* C2  Idempotent indexing: a second index_pdf(doc, force=False) right     *)
(* after a first one on the same document (one that has chunks, no         *)
(* collaborator failing) returns the same chunk count as the first and     *)
(* writes no new record.                                                   *)
(***************************************************************************)
C2_IdempotentIndexing ==
    [][ ( /\ IsVsmIndex(op) /\ ~op.force /\ result.kind = "return"
          /\ result.count > 0 /\ AllCallsOk(calls)
          /\ IsVsmIndex(op') /\ ~op'.force /\ op'.path = op.path
          /\ result'.kind = "return" /\ AllCallsOk(calls') )
        => (result'.count = result.count /\ store' = store) ]_vars

(***************************************************************************)
(* C3  Deletion removes: once remove_document(path) has returned True, no  *)
(* record with source = path remains in the store.                         *)
(***************************************************************************)
C3_DeletionRemoves ==
    (op.name = "VectorStoreManager.remove_document" /\ result.flag)
        => CountSource(store, op.path) = 0

(***************************************************************************)
(* C4  Missing file: index_pdf on a path that does not exist raises        *)
(* FileNotFoundError and makes no vector-store, loader or embedding call;  *)
(* the command and the command-line entry report a failure, also without   *)
(* any such call.                                                          *)
(***************************************************************************)
C4_MissingFile ==
    (op.name \in IndexOps /\ ~PathExists(op.path)) =>
        /\ Failed(op, result)
        /\ op.name \in DirectIndexOps => result.error = "FileNotFoundError"
        /\ \A i \in DOMAIN calls :
              calls[i].name \in {"VectorStoreManager.index_pdf", "os.path.exists"}

\* index_pdf has raised FileNotFoundError on a store that holds records
C4_Witness ==
    /\ IsVsmIndex(op)
    /\ op.path = "missing.pdf"
    /\ result.kind = "raise"
    /\ result.error = "FileNotFoundError"
    /\ store # EmptyBag

(***************************************************************************)
(* C5  Unsupported format: indexing an existing file that is not a PDF     *)
(* fails on every entry point, with an unsupported-format error where the  *)
(* entry point raises, and writes no records.                              *)
(***************************************************************************)
C5_UnsupportedFormat ==
    (op.name \in IndexOps /\ PathExists(op.path) /\ ~EndsWithPdf(op.path)) =>
        /\ Failed(op, result)
        /\ op.name \in DirectIndexOps => result.error = "UnsupportedFormatError"
        /\ ~Called(calls, "add_documents")

(***************************************************************************)
(* C6  Force propagation: IndexCommand.execute(pdf_path, force=True) on a  *)
(* valid path reaches VectorStoreManager.index_pdf(pdf_path, force=True).  *)
(***************************************************************************)
C6_ForcePropagation ==
    (op.name = "IndexCommand.execute" /\ op.force /\ IndexCommand_validate(op.path)) =>
        \E i \in DOMAIN calls :
            /\ calls[i].name = "VectorStoreManager.index_pdf"
            /\ calls[i].arg = op.path
            /\ calls[i].force

(***************************************************************************)
(* C7  Delete-before-add: after index_pdf(doc, force=True) has run with    *)
(* every collaborator call succeeding, no records of an earlier add        *)
(* coexist with the new records of the same source.                        *)
(***************************************************************************)
C7_DeleteBeforeAdd ==
    (IsVsmIndex(op) /\ op.force /\ result.kind = "return" /\ AllCallsOk(calls)) =>
        \A r \in BagToSet(store), o \in BagToSet(store) :
            (r.source = op.path /\ o.source = op.path) => r.batch = o.batch

C9_ErrorsNotSwallowed ==
    ( /\ op.name \in {"VectorStoreManager.get_document_info",
                      "VectorStoreManager.get_collection_info",
                      "VectorStoreManager.index_pdf"}
      /\ StoreCallFailed(calls) )
        => result.kind = "raise"

(***************************************************************************)
(* C10  Search bounds: for k > 0, search_similar and search_only return    *)
(* at most k results, in non-increasing similarity, exactly the sequence   *)
(* the store delivers for (query, k) without a filter.                     *)
(***************************************************************************)
C10_SearchBounds ==
    ( /\ op.name \in {"VectorStoreManager.search_similar", "RAGChain.search_only"}
      /\ op.k.given /\ op.k.v > 0
      /\ result.kind = "return" )
        => /\ Len(result.docs) <= op.k.v
           /\ \A i \in 1..(Len(result.docs) - 1) :
                 Score(op.query, result.docs[i]) >= Score(op.query, result.docs[i + 1])
           /\ result.docs = similarity_search(store, op.query, op.k.v, NoFilter)

\* a search has returned k results of different similarity, fewer than stored
C10_Witness ==
    /\ op.name = "RAGChain.search_only"
    /\ op.k.given /\ op.k.v > 1
    /\ result.kind = "return"
    /\ Len(result.docs) = op.k.v
    /\ Score(op.query, result.docs[1]) > Score(op.query, result.docs[2])
    /\ BagCardinality(store) > op.k.v

\* the records a step adds to the store
Added == store' (-) store

(***************************************************************************)
(* C14  Index return value: when VectorStoreManager.index_pdf indexes (it  *)
(* reaches add_documents and returns), the number it returns is the number *)
(* of records the call added to the store, every one of them tagged with   *)
(* source = the indexed path and written by this call.                     *)
(***************************************************************************)
C14_IndexReturnValue ==
    [][ ( /\ IsVsmIndex(op')
          /\ result'.kind = "return"
          /\ Called(calls', "add_documents") )
        => /\ BagCardinality(Added) = result'.count
           /\ BagCardinality(store') = BagCardinality(store) + result'.count
           /\ \A r \in BagToSet(Added) :
                 r.source = op'.path /\ r.batch = nextBatch ]_vars

\* a forced reindex of an indexed document has added and returned three
\* records of two pages
C14_Witness ==
    /\ IsVsmIndex(op)
    /\ op.force
    /\ RemoveCalled(calls)
    /\ result.kind = "return"
    /\ result.count = 3
    /\ Called(calls, "add_documents")
    /\ CountSource(store, op.path) > result.count

\* the entry points of a search
SearchOps == {"VectorStoreManager.search_similar", "RAGChain.search_only",
              "SearchCommand.execute", "main.search",
              "SearchResultsState.handle_input"}

\* the entry points that report in a dictionary or on the console
SearchCommandOps == {"SearchCommand.execute", "main.search",
                     "SearchResultsState.handle_input"}

\* the caller of the last search gave no k
Unspecified(o) ==
    /\ ~o.k.given
    /\ o.name = "SearchResultsState.handle_input" => strip(o.path) = ""

(***************************************************************************)
(* C11  Search on an empty collection: when the collection holds no record *)
(* and the store answers the search, every search entry point returns an   *)
(* empty sequence without raising; SearchCommand.execute (also through the *)
(* menu) returns success=True with count 0.                                *)
(***************************************************************************)
C11_EmptyCollectionSearch ==
    ( /\ op.name \in SearchOps
      /\ store = EmptyBag
      /\ calls # << >>
      /\ AllCallsOk(calls) )
        => /\ result.kind = "return"
           /\ result.docs = << >>
           /\ result.count = 0
           /\ op.name \in SearchCommandOps => (result.flag /\ result.error = "")

\* SearchCommand.execute has searched an empty collection under a configured
\* SEARCH_K and reported success with no document
C11_Witness ==
    /\ op.name = "SearchCommand.execute"
    /\ store = EmptyBag
    /\ Called(calls, "similarity_search")
    /\ AllCallsOk(calls)
    /\ result.flag
    /\ result.count = 0

(***************************************************************************)
(* C12  Search precondition k > 0: no similarity search is issued to the   *)
(* vector store with k <= 0, whatever number the caller or the menu user   *)
(* supplies.                                                               *)
(***************************************************************************)
C12_PositiveK ==
    \A i \in DOMAIN calls :
        (op.name \in SearchOps /\ calls[i].name = "similarity_search")
            => calls[i].k > 0

(***************************************************************************)
(* C13  Default k: when the caller of a search entry point gives no k      *)
(* (search_similar with k=None, SearchCommand.execute without k, the       *)
(* command line without -k, the menu with an empty answer), the k of the   *)
(* similarity search issued to the store is Config.SEARCH_K.               *)
(***************************************************************************)
C13_DefaultK ==
    \A i \in DOMAIN calls :
        (op.name \in SearchOps /\ Unspecified(op)
           /\ calls[i].name = "similarity_search")
            => calls[i].k = Config.SEARCH_K

\* the log holds a failed call of the QA chain
ChainFailed(cs) ==
    \E i \in DOMAIN cs : cs[i].name = "qa_chain.invoke" /\ ~cs[i].ok

\* how often the QA chain was invoked
Invocations(cs) == Cardinality({i \in DOMAIN cs : cs[i].name = "qa_chain.invoke"})

(***************************************************************************)
(* C15  chat(query) invokes the QA chain exactly once, with the query, on  *)
(* the path that returns and on the path that raises, and what it returns  *)
(* is the chain's dictionary unchanged: the answer generated from the      *)
(* retrieved documents and these documents.                                *)
(***************************************************************************)
C15_ChatInvokesOnce ==
    op.name = "RAGChain.chat" =>
        /\ Invocations(calls) = 1
        /\ Len(calls) = 1
        /\ calls[1].arg = op.query
        /\ result.kind = "raise" <=> ~calls[1].ok
        /\ result.kind = "return" =>
              result = ChainResult(generate(op.query, retrieve(store, op.query)),
                                   retrieve(store, op.query))

\* chat has raised the chain's error on an indexed collection after one call
C15_Witness ==
    /\ op.name = "RAGChain.chat"
    /\ result.kind = "raise"
    /\ Invocations(calls) = 1
    /\ store # EmptyBag

(***************************************************************************)
(* C16  A failed query yields no answer: when the chain fails (retrieval   *)
(* or generation), chat raises the error, returns and lists nothing, and   *)
(* ChatCommand.execute returns success=False with an error text, without a *)
(* 'result' entry, answer or sources.                                      *)
(***************************************************************************)
C16_FailedQueryNoAnswer ==
    (op.name \in {"RAGChain.chat", "ChatCommand.execute"} /\ ChainFailed(calls)) =>
        /\ shown = << >>
        /\ op.name = "RAGChain.chat" =>
              /\ result.kind = "raise"
              /\ result.error \in {"RetrievalError", "GenerationError"}
        /\ op.name = "ChatCommand.execute" =>
              /\ ~result.flag
              /\ result.error # ""
              /\ "result" \notin result.keys
              /\ result.answer = NoAnswer
              /\ result.docs = << >>

\* ChatCommand.execute has reported a failed generation over a collection
\* that holds documents for the question
C16_Witness ==
    /\ op.name = "ChatCommand.execute"
    /\ ChainFailed(calls)
    /\ ~result.flag
    /\ retrieve(store, op.query) # << >>

(***************************************************************************)
(* C17  Sources of an answer, as claimed: chat lists the sources if and    *)
(* only if show_sources is true, one entry (source, page, excerpt) per     *)
(* chunk used, in the order retrieved, and with show_sources false no      *)
(* sources reach the caller, printed or returned.                          *)
(***************************************************************************)
C17_SourcesIffShown ==
    (op.name = "RAGChain.chat" /\ result.kind = "return") =>
        /\ op.force => shown = SourceLines(retrieve(store, op.query))
        /\ ~op.force => (shown = << >> /\ result.docs = << >>)

(***************************************************************************)
(* C17 (amended)  chat prints the sources if and only if show_sources is   *)
(* true, one entry (source, page, excerpt of at most 200 characters) per   *)
(* source document of the chain's result, in the order retrieved; the      *)
(* dictionary returned carries the chain's source documents whatever       *)
(* show_sources is.                                                        *)
(***************************************************************************)
C17_SourcesPrintedIffShown ==
    (op.name = "RAGChain.chat" /\ result.kind = "return") =>
        /\ op.force => shown = SourceLines(retrieve(store, op.query))
        /\ ~op.force => shown = << >>
        /\ result.docs = retrieve(store, op.query)
        /\ \A i \in DOMAIN shown : shown[i].excerpt.chars <= PreviewLen

\* chat has listed the sources of an answer: chunks of two pages, cut to excerpts
C17_Witness ==
    /\ op.name = "RAGChain.chat"
    /\ op.force
    /\ result.kind = "return"
    /\ Len(shown) >= 2
    /\ shown[1].page # shown[2].page
    /\ shown[1].excerpt.dots

Constructors == {"VectorStoreManager.__init__", "RAGChain.__init__"}

\* a credential is missing from the environment or empty
MissingCredential == Falsy(env.OPENAI_API_KEY) \/ Falsy(env.POSTGRES_PASSWORD)

\* the configuration breaks a precondition of chunking
BadChunking ==
    Config.CHUNK_SIZE <= 0 \/ Config.CHUNK_OVERLAP >= Config.CHUNK_SIZE

(***************************************************************************)
(* C18  Missing credentials are fatal at startup: when OPENAI_API_KEY or   *)
(* POSTGRES_PASSWORD is missing or empty, validate_config returns False,   *)
(* constructing VectorStoreManager or RAGChain raises before any client is *)
(* created, and no index, search or chat operation runs.                   *)
(***************************************************************************)
C18_MissingCredentialsFatal ==
    MissingCredential =>
        /\ built = {}
        /\ op.name \in {"init"} \cup Constructors
        /\ op.name \in Constructors =>
              /\ result.kind = "raise"
              /\ result.error = "ValueError"
              /\ calls = <<Call("Config.validate_config", "", 0, FALSE, FALSE)>>

(***************************************************************************)
(* C19  Chunking preconditions are enforced at startup: under a            *)
(* configuration with chunk_size <= 0 or chunk_overlap >= chunk_size every *)
(* construction fails and no operation runs.                               *)
(***************************************************************************)
C19_ChunkingPreconditions ==
    BadChunking =>
        /\ "VectorStoreManager" \notin built
        /\ op.name \in {"init"} \cup Constructors
        /\ op.name \in Constructors => result.kind = "raise"

(***************************************************************************)
(* C20  Chunk size invariant: every record index_pdf has written to the    *)
(* store holds a chunk of at most Config.CHUNK_SIZE characters.            *)
(***************************************************************************)
C20_ChunkSize ==
    \A r \in BagToSet(store) : r.len <= Config.CHUNK_SIZE

(***************************************************************************)
(* C21  Chunk provenance: every record an index operation writes carries   *)
(* source = the path it was given, which the existence filter on that path *)
(* matches, and the page number (counted from 0) of the page of the file   *)
(* its text was read from.                                                 *)
(***************************************************************************)
C21_ChunkProvenance ==
    [][ op'.name \in IndexOps =>
          \A r \in BagToSet(Added) :
              /\ r.source = op'.path
              /\ r \in Matching(store', op'.path)
              /\ r.page = r.text - 1 ]_vars

\* a two-page document is indexed: its three records carry its path, two of
\* them the first page and one the second
C21_Witness ==
    /\ IsVsmIndex(op)
    /\ result.kind = "return"
    /\ Called(calls, "add_documents")
    /\ \E r \in BagToSet(store) :
          r.source = op.path /\ r.text = 1 /\ r.page = 0 /\ store[r] = 2
    /\ \E r \in BagToSet(store) :
          r.source = op.path /\ r.text = 2 /\ r.page = 1 /\ store[r] = 1

(***************************************************************************)
(* C22  Collection probe: get_collection_info reports has_documents = true *)
(* exactly when the store holds at least one record, and always reports    *)
(* the configured collection name and embedding model.                     *)
(***************************************************************************)
C22_CollectionProbe ==
    op.name = "VectorStoreManager.get_collection_info" =>
        /\ result.kind = "return"
        /\ result.flag = (BagCardinality(store) > 0)
        /\ result.docs = <<Config.COLLECTION_NAME, Config.OPENAI_EMBEDDING_MODEL>>

(***************************************************************************)
(* C23  No mutual exclusion for indexing: when two calls                   *)
(* index_pdf(doc, force=False) on the same document both get "not         *)
(* indexed" from their existence probe and both return, each of them has   *)
(* loaded, split and added the document: the store holds the chunks of     *)
(* both calls, in two batches.                                             *)
(***************************************************************************)
BothPassedProbe(c, d) ==
    /\ c # d
    /\ procs[c].pc = "returned" /\ procs[d].pc = "returned"
    /\ procs[c].path = procs[d].path
    /\ ~procs[c].force /\ ~procs[d].force
    /\ \A x \in {c, d} :
          /\ procs[x].doc_info.calls # << >>
          /\ AllCallsOk(procs[x].doc_info.calls)
          /\ ~procs[x].doc_info.exists
          /\ procs[x].result.kind = "return"

BatchesOf(st, src) == {r.batch : r \in Matching(st, src)}

C23_InterleavedIndexingDuplicates ==
    \A c, d \in Callers :
        BothPassedProbe(c, d) =>
            /\ Called(procs[c].calls, "add_documents")
            /\ Called(procs[d].calls, "add_documents")
            /\ CountSource(store, procs[c].path)
                  = procs[c].result.count + procs[d].result.count

\* both calls of the same three-chunk document passed the probe before
\* either added: the store holds its chunks twice, in two batches
C23_Witness ==
    /\ BothPassedProbe(1, 2)
    /\ procs[1].result.count = 3
    /\ procs[2].result.count = 3
    /\ CountSource(store, procs[1].path) = 6
    /\ BatchesOf(store, procs[1].path) = {0, 1}
    /\ \A r \in Matching(store, procs[1].path) :
          store[r] = CopiesIn([r EXCEPT !.batch = 1 - r.batch], store)

(***************************************************************************)
(* C24  IndexCommand.execute(pdf_path, force) on an existing .pdf path     *)
(* with working collaborators indexes the document: it returns             *)
(* success=True with chunks_count the count VectorStoreManager.index_pdf   *)
(* returns for (pdf_path, force) on the store as it was, and the store is  *)
(* the one that call leaves; for force=False and force=True.               *)
(***************************************************************************)
C24_IndexCommandIndexes ==
    [][ ( /\ op'.name = "IndexCommand.execute"
          /\ IndexCommand_validate(op'.path)
          /\ AllCallsOk(calls') )
        => /\ result'.flag
           /\ \E out \in index_pdf(store, nextBatch, op'.path, op'.force) :
                 /\ out.result.kind = "return"
                 /\ result'.count = out.result.count
                 /\ store' = out.store ]_vars

(***************************************************************************)
(* C25  get_document_info(path), the store answering, reports chunks_count *)
(* equal to the number of records stored with source = path and exists =   *)
(* (that number > 0), for every store state and every document size.       *)
(***************************************************************************)
C25_DocumentInfoCounts ==
    ( /\ op.name = "VectorStoreManager.get_document_info"
      /\ AllCallsOk(calls) )
        => /\ result.kind = "return"
           /\ result.count = CountSource(store, op.path)
           /\ result.flag = (CountSource(store, op.path) > 0)

OtherSources(st, src) == {r \in BagToSet(st) : r.source # src}

C27_IndexLeavesOthersAlone ==
    [][ op'.name \in IndexOps =>
          /\ \A r \in BagToSet(Added) : r.source = op'.path
          /\ OtherSources(store', op'.path) = OtherSources(store, op'.path)
          /\ \A r \in OtherSources(store, op'.path) :
                CopiesIn(r, store') = CopiesIn(r, store) ]_vars

\* a forced index has added the records of a document while the store
\* holds records of another document
C27_Witness ==
    /\ IsVsmIndex(op)
    /\ op.force
    /\ Called(calls, "add_documents")
    /\ result.kind = "return"
    /\ result.count > 0
    /\ OtherSources(store, op.path) # {}

(***************************************************************************)
(* C28  Read-only operations: search_similar, check_document_exists,       *)
(* get_document_info, get_collection_info and chat leave the records of    *)
(* the vector store unchanged, whether they succeed or fail.               *)
(***************************************************************************)
ReadOps == {"VectorStoreManager.search_similar",
            "VectorStoreManager.check_document_exists",
            "VectorStoreManager.get_document_info",
            "VectorStoreManager.get_collection_info",
            "RAGChain.chat"}

C28_ReadOnlyOperations ==
    [][ op'.name \in ReadOps => store' = store /\ nextBatch' = nextBatch ]_vars

\* a chat whose retrieval failed, over a store that holds records
C28_Witness ==
    /\ op.name = "RAGChain.chat"
    /\ ChainFailed(calls)
    /\ BagCardinality(store) = 3

(***************************************************************************)
(* C29  Commands never raise: execute of IndexCommand, ChatCommand,        *)
(* SearchCommand, InfoCommand and TestCommand returns a dictionary with a  *)
(* boolean success; with success = False it carries an error text, and     *)
(* with success = True no collaborator call of the command has failed.     *)
(***************************************************************************)
CommandOps == {"IndexCommand.execute", "ChatCommand.execute",
               "SearchCommand.execute", "InfoCommand.execute",
               "TestCommand.execute"}

C29_CommandsNeverRaise ==
    op.name \in CommandOps =>
        /\ result.kind = "return"
        /\ result.flag \in BOOLEAN
        /\ ~result.flag => result.error # ""
        /\ result.flag => AllCallsOk(calls)

(***************************************************************************)
(* C30  Empty query is rejected before any work: ChatCommand.execute and   *)
(* SearchCommand.execute with a missing, empty or whitespace-only query    *)
(* return success = False with an error text, and no call of the chain or  *)
(* of the store has been made.                                             *)
(***************************************************************************)
NoQuery == {None, "", " "}

C30_EmptyQueryRejected ==
    ( /\ op.name \in {"ChatCommand.execute", "SearchCommand.execute"}
      /\ op.query \in NoQuery )
        => /\ result.kind = "return"
           /\ ~result.flag
           /\ result.error # ""
           /\ calls = << >>
           /\ shown = << >>

\* ChatCommand.execute without a query, over a collection that holds
\* records, has returned its error
C30_Witness ==
    /\ op.name = "ChatCommand.execute"
    /\ op.query = None
    /\ ~result.flag
    /\ calls = << >>
    /\ BagCardinality(store) > 0

(***************************************************************************)
(* C31  Forced reindex and removal require confirmation: in the menu state *)
(* machine an index call with force=True or a remove_document call happens *)
(* only as the direct result of an affirmative answer ('s', 'sim', 'y',    *)
(* 'yes', in any case) in ConfirmReindexState, ConfirmForceIndexState or   *)
(* ConfirmRemoveState; a negative answer performs no operation and returns *)
(* to the parent menu.                                                     *)
(***************************************************************************)
ConfirmStates == {"ConfirmReindexState", "ConfirmForceIndexState", "ConfirmRemoveState"}

\* the step is handle_input of a state of these classes
InputTo(o, names) == \E n \in names : o.name = n \o ".handle_input"

\* the log holds an index call with force=True or a remove_document call
Destructive(cs) ==
    \E i \in DOMAIN cs :
        \/ cs[i].name = "IndexCommand.execute" /\ cs[i].force
        \/ cs[i].name = "VectorStoreManager.remove_document"

\* the first half of the claim: only an affirmative answer in a confirm
\* state makes the call
OnlyOnAffirmative ==
    Destructive(calls')
        => InputTo(op', ConfirmStates) /\ lower(op'.path) \in Affirmative

\* the menu a confirm state returns to
ParentMenu(o) ==
    IF o.name = "ConfirmRemoveState.handle_input" THEN RemoveMenuState
    ELSE IndexMenuState

SelfLoopStates ==
    {"MainMenuState", "IndexMenuState", "PDFOptionsState", "ConfirmReindexState",
     "ConfirmRemoveState", "ChatMenuState", "SearchMenuState", "ReindexMenuState",
     "RemoveMenuState"}

\* the numerals lo..hi as the user types them
Options(lo, hi) == {ToString(n) : n \in lo..hi}

\* the PDFs of the listing that are indexed
IndexedPdfs(st, docs) ==
    IF docs = None THEN << >>
    ELSE SelectSeq(docs, LAMBDA f : CountSource(st, f) > 0)

\* the inputs a state offers: the options of the menu it shows for this
\* listing and this collection, the answers of a confirmation
Recognised(st, self, docs) ==
    CASE self.name = "MainMenuState" -> Options(0, 7)
      [] self.name = "IndexMenuState" ->
             IF docs = None \/ docs = << >> THEN Options(1, 2)
             ELSE Options(1, Len(docs) + 4)
      [] self.name = "PDFOptionsState" ->
             IF CountSource(st, self.arg) > 0 THEN Options(1, 3) ELSE {"1", "3"}
      [] self.name \in {"ConfirmReindexState", "ConfirmRemoveState"} ->
             {c \in Typed : lower(c) \in Affirmative \cup Negative}
      [] self.name = "ChatMenuState" -> Options(1, Len(ChatSuggestions))
      [] self.name = "SearchMenuState" -> Options(1, Len(SearchSuggestions))
      [] self.name \in {"ReindexMenuState", "RemoveMenuState"} ->
             Options(1, Len(IndexedPdfs(st, docs)) + 1)
      [] OTHER -> Typed

\* the log holds a call of a command or of remove_document
CommandCalled(cs) ==
    \E i \in DOMAIN cs :
        cs[i].name \in {"IndexCommand.execute", "VectorStoreManager.remove_document",
                        "ChatCommand.execute", "SearchCommand.execute"}

C32_InvalidInputSelfLoop ==
    [][ ( /\ menu.phase = "input"
          /\ InputTo(op', SelfLoopStates)
          /\ op'.path # None
          /\ op'.path \notin Recognised(store, menu.current_state, menu.docs) )
        => /\ menu'.current_state = menu.current_state
           /\ menu'.phase = "display"
           /\ ~CommandCalled(calls')
           /\ store' = store ]_vars

(***************************************************************************)
(* C33  Menu loops end only on exit: MenuContext.run sets running to False *)
(* only when the current state is MainMenuState and the input is "0", and  *)
(* MenuManager.handle_menu_choice returns False only for "0"; every other  *)
(* input, including one whose handler raises, keeps the loop running.      *)
(***************************************************************************)
\* the step answered an input: handle_input of a state or
\* handle_menu_choice, or the exception raised in their place
AnsweredInput(o) ==
    \/ o.name = "MenuManager.handle_menu_choice"
    \/ \E n \in {MainMenuState.name, IndexMenuState.name, ChatMenuState.name,
                  SearchMenuState.name, InteractiveModeState.name,
                  ManualIndexState.name, CustomChatState.name,
                  CustomSearchState.name, ReindexMenuState.name,
                  RemoveMenuState.name, "PDFOptionsState", "PDFInfoState",
                  "SearchResultsState"} \cup ConfirmStates :
          o.name = n \o ".handle_input"

\* the step is the exit of one of the two loops
ExitChosen ==
    \/ /\ op'.name = "MainMenuState.handle_input"
       /\ menu.phase = "input"
       /\ menu.current_state = MainMenuState
       /\ op'.path = "0"
    \/ /\ op'.name = "MenuManager.handle_menu_choice"
       /\ menu.phase = "choice"
       /\ op'.path = "0"

C33_LoopsEndOnlyOnExit ==
    [][ /\ (menu.running /\ ~menu'.running) => ExitChosen
        /\ ExitChosen => (~menu'.running /\ menu'.phase = "ended")
        /\ ( menu.phase \in {"input", "choice"} /\ AnsweredInput(op') /\ ~ExitChosen )
             => (menu'.running /\ menu'.phase \in {"display", "choice"}) ]_vars

\* a handler of MenuManager raised in its body and the loop goes on
C33_Witness ==
    /\ op.name = "MenuManager.handle_menu_choice"
    /\ op.path \in DOMAIN Handlers
    /\ Len(calls) = 1
    /\ ~calls[1].ok
    /\ menu.running
    /\ menu.phase = "choice"

(***************************************************************************)
(* C34  No trap state: from every state of the menu state machine          *)
(* (InteractiveModeState, the confirm states and PDFInfoState included)    *)
(* there is a finite input sequence that leads back to MainMenuState, and  *)
(* from there to exit.                                                     *)
(***************************************************************************)
\* the states the loop may be in at its next prompt once `self` is the
\* current state: display() is followed while it returns a state
Settled(st, self, docs) ==
    UNION { LET d1 == display(self, docs, Answers(st, ok1))
            IN  IF d1.next = NoState THEN {self}
                ELSE { LET d2 == display(d1.next, docs, Answers(st, ok2))
                       IN  IF d2.next = NoState THEN d1.next ELSE d2.next
                       : ok2 \in BOOLEAN }
            : ok1 \in BOOLEAN }

\* the states the loop may be in at its next prompt after this input,
\* whatever the collaborators do; NoState when the loop has ended
AfterInput(st, self, choice, docs) ==
    UNION { LET step == handle_input(self, choice, docs, Answers(st, storeOk))
            IN  IF step.next = NoState
                THEN (IF choice = "0" THEN {NoState} ELSE {self})
                ELSE Settled(st, step.next, docs)
            : storeOk \in BOOLEAN }

\* how many inputs away from the end of the loop a state is at most
Depth(self) ==
    CASE self = NoState -> 0
      [] self.name = "MainMenuState" -> 1
      [] self.name \in {"IndexMenuState", "ChatMenuState", "InteractiveModeState",
                        "SearchResultsState", "CustomChatState"} -> 2
      [] self.name \in {"PDFOptionsState", "ManualIndexState", "ConfirmForceIndexState",
                        "ConfirmReindexState", "ReindexMenuState", "RemoveMenuState",
                        "SearchMenuState", "CustomSearchState"} -> 3
      [] self.name \in {"PDFInfoState", "ConfirmRemoveState"} -> 4
      [] OTHER -> 5

\* at every prompt some input brings the loop nearer to its end, whatever
\* the collaborators do; at MainMenuState that input is "0"
C34_NoTrapState ==
    menu.phase = "input"
        => /\ Depth(menu.current_state) \in 1..4
           /\ \E text \in Typed :
                 \A s \in AfterInput(store, menu.current_state, strip(text),
                                     menu.docs) :
                     Depth(s) < Depth(menu.current_state)
           /\ menu.current_state = MainMenuState
                 => AfterInput(store, menu.current_state, "0", menu.docs)
                        = {NoState}

\* 'sair' in InteractiveModeState has brought the loop back to
\* MainMenuState
C34_Witness ==
    /\ op.name = "InteractiveModeState.handle_input"
    /\ op.path = "sair"
    /\ menu.phase = "display"
    /\ menu.current_state = MainMenuState

(***************************************************************************)
(* C35  No display-only cycle: in MenuContext.run a state whose display()  *)
(* returns a next state (TestState, HelpState, InfoState,                  *)
(* ReindexMenuState, RemoveMenuState) always hands over to a state whose   *)
(* display() returns None, so user input is read after at most two         *)
(* consecutive display() calls and the loop cannot spin without input.     *)
(***************************************************************************)
HandingOver == {"TestState", "HelpState", "InfoState", "ReindexMenuState",
                "RemoveMenuState"}

\* the step is a display() that returned a state
HandedOver ==
    /\ menu.phase = "display"
    /\ menu'.phase = "display"
    /\ op'.name = menu.current_state.name \o ".display"

\* the first half of the claim: who hands over, and to whom
HandsOverToPrompt ==
    HandedOver
        => /\ menu.current_state.name \in HandingOver
           /\ \A storeOk \in BOOLEAN :
                  display(menu'.current_state, menu'.docs,
                          Answers(store', storeOk)).next = NoState

C35_NoDisplayOnlyCycle ==
    [][ /\ HandsOverToPrompt
        /\ menu'.displays <= 2 ]_vars

====
